---- MODULE Spec2Model ----
(***************************************************************************)
(* A model of the tree-walking interpreter: runtime values, environment    *)
(* frames, expression evaluation, statement execution, the scanner, the    *)
(* parser, the resolver and the driver's run / run_prompt.                 *)
(*                                                                         *)
(* Conventions.                                                            *)
(*  - Option<T> is modelled with the value None for Rust's None.           *)
(*  - A HashMap<String, V> is a function from Names to V or Absent.        *)
(*  - Rc<RefCell<Environment>> is an index into the sequence w.frames;     *)
(*    cloning the Rc copies the index, so every holder sees every write.   *)
(*  - Result<T, Box<dyn Error>> is a record with tag "ok" or "err"; a      *)
(*    panic! (which unwinds through every caller and ends the process) is  *)
(*    tag "panic". Tag "fuel" is the model's own bound on calls and loop   *)
(*    iterations and is no outcome of the program.                         *)
(*  - f64 numbers are exact rationals n/d (rounding is not modelled).      *)
(*  - interpreter.rs still calls the two-parameter Environment::define and *)
(*    the one-parameter Expr::evaluvate. The model reads define(name, v)   *)
(*    as define(name, v, Some(0)), the form expr.rs:334 uses, and          *)
(*    e.evaluvate(env) as e.evaluvate(env, self.get_distance(e)), the      *)
(*    distance interpreter.rs:124 computes right before the call.          *)
(***************************************************************************)
EXTENDS Integers, Sequences, FiniteSets, TLC

(***************************************************************************)
(* State. One process: the interpreter of a run (or of a prompt session),  *)
(* the world it acts on, the input it was handed and the outcome of the    *)
(* last operation.                                                         *)
(***************************************************************************)
VARIABLES
    phase,            \* "ready" / "prompt" before an operation, then "done",
                      \* "aborted" (a panic ended the process) or "exited"
    input,            \* the input of the operation
    result,           \* the outcome of the last operation
    world,            \* frames, printed lines, clock, invoked implementations
    interp,           \* the Interpreter: current frame, return slot, locals
    overflow_checks,  \* the build: TRUE when usize arithmetic panics on overflow
    slots,            \* the build: the stack addresses of the parameter expr of
                      \* Interpreter::resolve and of Interpreter::get_distance
    runs,             \* submissions the prompt has run
    scanner,          \* the Scanner of scan_tokens
    scan_errors,      \* the errors scan_tokens has recorded
    parser            \* the Parser of a parse run one declaration per step

None == [kind |-> "None"]
Absent == [kind |-> "Absent"]

Some(x) == [kind |-> "Some", v |-> x]

Names == {"a", "b", "f", "clock"}

(***************************************************************************)
(* LiteralValue (expr.rs:22-35)                                            *)
(***************************************************************************)
RECURSIVE Gcd(_, _)
Gcd(x, y) == IF y = 0 THEN x ELSE Gcd(y, x % y)

Abs(x) == IF x < 0 THEN -x ELSE x

\* A finite f64 n/d in lowest terms with d > 0; d = 0 stands for inf / NaN.
Rat(n, d) ==
    IF d = 0 THEN [kind |-> "Number", n |-> (IF n > 0 THEN 1 ELSE IF n < 0 THEN -1 ELSE 0), d |-> 0]
    ELSE LET g == Gcd(Abs(n), Abs(d))
             s == IF d < 0 THEN -1 ELSE 1
         IN  [kind |-> "Number", n |-> (s * n) \div g, d |-> (s * d) \div g]

Number(n) == Rat(n, 1)
StringValue(s) == [kind |-> "String", s |-> s]
True == [kind |-> "True"]
False == [kind |-> "False"]
Nil == [kind |-> "Nil"]
Callable(name, arity, fun) ==
    [kind |-> "Callable", name |-> name, arity |-> arity, fun |-> fun]

from_bool(e) == IF e THEN True ELSE False

to_type(v) ==
    CASE v.kind = "Number" -> "Number"
      [] v.kind = "String" -> "String"
      [] v.kind \in {"True", "False"} -> "Boolean"
      [] v.kind = "Nil" -> "Nil"
      [] v.kind = "Callable" -> "Callable"

IsFinite(x) == x.d # 0
IsNaN(x) == x.d = 0 /\ x.n = 0

\* f64 ==, <, arithmetic on the rationals; NaN compares false with everything.
NumEq(x, y) == ~IsNaN(x) /\ ~IsNaN(y) /\ x.n = y.n /\ x.d = y.d
NumLt(x, y) ==
    IF IsNaN(x) \/ IsNaN(y) THEN FALSE
    ELSE IF IsFinite(x) /\ IsFinite(y) THEN x.n * y.d < y.n * x.d
    ELSE IF IsFinite(x) THEN y.n > 0
    ELSE IF IsFinite(y) THEN x.n < 0
    ELSE x.n < y.n
NumLe(x, y) == NumLt(x, y) \/ NumEq(x, y)
NumNeg(x) == [x EXCEPT !.n = -x.n]
NumAdd(x, y) ==
    IF IsFinite(x) /\ IsFinite(y) THEN Rat(x.n * y.d + y.n * x.d, x.d * y.d)
    ELSE IF IsFinite(x) THEN y
    ELSE IF IsFinite(y) THEN x
    ELSE IF x.n = y.n THEN x ELSE Rat(0, 0)
NumSub(x, y) == NumAdd(x, NumNeg(y))
NumMul(x, y) ==
    IF IsFinite(x) /\ IsFinite(y) THEN Rat(x.n * y.n, x.d * y.d)
    ELSE Rat(x.n * y.n, 0)
NumDiv(x, y) ==
    IF IsFinite(x) /\ IsFinite(y) THEN Rat(x.n * y.d, x.d * y.n)
    ELSE IF IsFinite(x) THEN (IF IsNaN(y) THEN Rat(0, 0) ELSE Number(0))
    ELSE IF IsFinite(y) THEN Rat(x.n * (IF y.n < 0 THEN -1 ELSE 1), 0)
    ELSE Rat(0, 0)

\* String comparison is bytewise lexicographic; a string is a sequence of bytes.
RECURSIVE StrLt(_, _)
StrLt(x, y) ==
    IF y = <<>> THEN FALSE
    ELSE IF x = <<>> THEN TRUE
    ELSE IF Head(x) # Head(y) THEN Head(x) < Head(y)
    ELSE StrLt(Tail(x), Tail(y))

\* impl PartialEq for LiteralValue (expr.rs:43-70): "ok" with the bool, or the
\* panic of the catch-all arm.
LiteralEq(x, y) ==
    CASE x.kind = "Number" /\ y.kind = "Number" -> [tag |-> "ok", val |-> NumEq(x, y)]
      [] x.kind = "String" /\ y.kind = "String" -> [tag |-> "ok", val |-> x.s = y.s]
      [] x.kind = "False" /\ y.kind = "False" -> [tag |-> "ok", val |-> TRUE]
      [] x.kind = "True" /\ y.kind = "True" -> [tag |-> "ok", val |-> TRUE]
      [] x.kind = "False" /\ y.kind = "True" -> [tag |-> "ok", val |-> FALSE]
      [] x.kind = "True" /\ y.kind = "False" -> [tag |-> "ok", val |-> FALSE]
      [] x.kind = "Nil" /\ y.kind = "Nil" -> [tag |-> "ok", val |-> TRUE]
      [] x.kind = "Callable" /\ y.kind = "Callable" ->
            [tag |-> "ok", val |-> x.name = y.name /\ x.arity = y.arity]
      [] OTHER -> [tag |-> "panic", val |-> "Error in PartialEq of LiteralValue"]

\* LiteralValue::is_falsy (expr.rs:116-143)
is_falsy(v) ==
    CASE v.kind = "Number" -> [tag |-> "ok", val |-> IF NumEq(v, Number(0)) THEN True ELSE False]
      [] v.kind = "String" -> [tag |-> "ok", val |-> IF v.s = <<>> THEN True ELSE False]
      [] v.kind = "False" -> [tag |-> "ok", val |-> True]
      [] v.kind = "True" -> [tag |-> "ok", val |-> False]
      [] v.kind = "Nil" -> [tag |-> "ok", val |-> True]
      [] v.kind = "Callable" ->
            [tag |-> "panic", val |-> "Cannot use callable as truthy value"]

\* is_truthy with every Number truthy, 0 included.
is_truthy_any_number(v) ==
    CASE v.kind = "Number" -> [tag |-> "ok", val |-> True]
      [] v.kind = "String" -> [tag |-> "ok", val |-> IF v.s = <<>> THEN False ELSE True]
      [] v.kind = "True" -> [tag |-> "ok", val |-> True]
      [] v.kind = "False" -> [tag |-> "ok", val |-> False]
      [] v.kind = "Nil" -> [tag |-> "ok", val |-> False]
      [] v.kind = "Callable" ->
            [tag |-> "panic", val |-> "Cannot use callable as truthy value"]

\* LiteralValue::is_truthy (expr.rs:146-173)
is_truthy(v) ==
    CASE v.kind = "Number" -> [tag |-> "ok", val |-> IF NumEq(v, Number(0)) THEN False ELSE True]
      [] v.kind = "String" -> [tag |-> "ok", val |-> IF v.s = <<>> THEN False ELSE True]
      [] v.kind = "True" -> [tag |-> "ok", val |-> True]
      [] v.kind = "False" -> [tag |-> "ok", val |-> False]
      [] v.kind = "Nil" -> [tag |-> "ok", val |-> False]
      [] v.kind = "Callable" ->
            [tag |-> "panic", val |-> "Cannot use callable as truthy value"]

(***************************************************************************)
(* Environment (environments.rs)                                           *)
(***************************************************************************)
\* clock_impl reads the system time: the world's field now.
ClockFun == [impl |-> "clock"]

\* get_globals (environments.rs:22-33)
get_globals ==
    [n \in Names |-> IF n = "clock" THEN Callable(<<"clock">>, 0, ClockFun) ELSE Absent]

EmptyMap == [n \in Names |-> Absent]

\* Environment::new (environments.rs:36-42); enclosing 0 is None.
NewEnvironment == [values |-> EmptyMap, globals |-> get_globals, enclosing |-> 0]

\* Rc::new(RefCell::new(env)): the frame is appended, its index is the Rc.
Alloc(w, env) == [w EXCEPT !.frames = Append(@, env)]
LastIdx(w) == Len(w.frames)

\* Environment::define (environments.rs:45-56). A positive distance recurses
\* on self, never on the enclosing frame, so it ends in self.values too.
RECURSIVE EnvDefine(_, _, _, _, _)
EnvDefine(w, f, name, value, distance) ==
    IF distance = None
    THEN [w EXCEPT !.frames[f].globals[name] = value]
    ELSE IF distance.v = 0
         THEN [w EXCEPT !.frames[f].values[name] = value]
         ELSE EnvDefine(w, f, name, value, Some(distance.v - 1))

\* assign that writes the frame it is called on, whatever the distance.
EnvAssignNearest(w, f, name, value, distance) ==
    [tag |-> "ok", val |-> TRUE, w |-> [w EXCEPT !.frames[f].values[name] = value]]

\* Environment::assign (environments.rs:59-77): [tag, val (the bool), w].
RECURSIVE EnvAssign(_, _, _, _, _)
EnvAssign(w, f, name, value, distance) ==
    IF distance = None
    THEN [tag |-> "ok", val |-> TRUE, w |-> [w EXCEPT !.frames[f].globals[name] = value]]
    ELSE IF distance.v = 0
         THEN [tag |-> "ok", val |-> TRUE, w |-> [w EXCEPT !.frames[f].values[name] = value]]
         ELSE IF w.frames[f].enclosing = 0
              THEN [tag |-> "panic",
                    val |-> "Tried to assign a var that was defined deeper than the current env depth",
                    w |-> w]
              ELSE EnvAssign(w, w.frames[f].enclosing, name, value, Some(distance.v - 1))

\* Environment::get (environments.rs:80-96): [tag, val (Absent for None)].
RECURSIVE EnvGet(_, _, _, _)
EnvGet(w, f, name, distance) ==
    IF distance = None
    THEN [tag |-> "ok", val |-> w.frames[f].globals[name]]
    ELSE IF distance.v = 0
         THEN [tag |-> "ok", val |-> w.frames[f].values[name]]
         ELSE IF w.frames[f].enclosing = 0
              THEN [tag |-> "panic",
                    val |-> "Tried to resolve a var that was defined deeper than the current env depth"]
              ELSE EnvGet(w, w.frames[f].enclosing, name, Some(distance.v - 1))

(***************************************************************************)
(* LiteralValue::to_string (expr.rs:74-87): a sequence of characters.       *)
(***************************************************************************)
Digit(k) == CASE k = 0 -> "0" [] k = 1 -> "1" [] k = 2 -> "2" [] k = 3 -> "3"
              [] k = 4 -> "4" [] k = 5 -> "5" [] k = 6 -> "6" [] k = 7 -> "7"
              [] k = 8 -> "8" [] k = 9 -> "9"

RECURSIVE NatToString(_)
NatToString(k) == IF k < 10 THEN <<Digit(k)>> ELSE NatToString(k \div 10) \o <<Digit(k % 10)>>

IntToString(k) == IF k < 0 THEN <<"-">> \o NatToString(-k) ELSE NatToString(k)

\* The bytes the model's strings are made of.
Chr(b) == CASE b = 48 -> "0" [] b = 97 -> "a" [] b = 98 -> "b"

RECURSIVE BytesToString(_)
BytesToString(bs) == IF bs = <<>> THEN <<>> ELSE <<Chr(Head(bs))>> \o BytesToString(Tail(bs))

\* A non-integral number is shown as n/d: its decimal digits are not modelled.
NumberToString(x) ==
    IF x.d = 1 THEN IntToString(x.n)
    ELSE IF x.d = 0 THEN (IF x.n = 0 THEN <<"NaN">> ELSE IF x.n > 0 THEN <<"inf">> ELSE <<"-inf">>)
    ELSE IntToString(x.n) \o <<"/">> \o NatToString(x.d)

to_string(v) ==
    CASE v.kind = "Number" -> NumberToString(v)
      [] v.kind = "String" -> <<"\"">> \o BytesToString(v.s) \o <<"\"">>
      [] v.kind = "True" -> <<"true">>
      [] v.kind = "False" -> <<"false">>
      [] v.kind = "Nil" -> <<"nil">>
      [] v.kind = "Callable" -> <<"<fn ">> \o v.name \o <<">/">> \o NatToString(v.arity)

(***************************************************************************)
(* Expr (expr.rs:185-226) and Stmt (stmt.rs:4-39). A Token is kept as its  *)
(* lexeme (names) or its token_type (operators).                           *)
(***************************************************************************)
Literal(v) == [e |-> "Literal", literal |-> v]
Grouping(x) == [e |-> "Grouping", expression |-> x]
Unary(op, r) == [e |-> "Unary", operator |-> op, right |-> r]
Binary(l, op, r) == [e |-> "Binary", left |-> l, operator |-> op, right |-> r]
Logical(l, op, r) == [e |-> "Logical", left |-> l, operator |-> op, right |-> r]
Variable(n) == [e |-> "Variable", name |-> n]
Assign(n, x) == [e |-> "Assign", name |-> n, value |-> x]
Call(c, args) == [e |-> "Call", callee |-> c, args |-> args]
AnonFunc(args, body) == [e |-> "AnonFunc", args |-> args, body |-> body]

ExpressionStmt(x) == [s |-> "Expression", expression |-> x]
PrintStmt(x) == [s |-> "Print", expression |-> x]
VarStmt(n, x) == [s |-> "Var", name |-> n, initializer |-> x]
Block(ss) == [s |-> "Block", stmts |-> ss]
IfElse(p, t, el) == [s |-> "IfElse", predicate |-> p, then_branch |-> t, else_branch |-> el]
WhileLoop(c, b) == [s |-> "WhileLoop", cond |-> c, body |-> b]
Function(n, params, body) == [s |-> "Function", name |-> n, params |-> params, body |-> body]
Return(v) == [s |-> "Return", value |-> v]

\* Token::to_string (scanner.rs:375-380) of an Identifier token without literal.
TokenToString(lexeme) == <<"Identifier", " ", lexeme, " ", "None">>

\* A node in memory: the address it lives at and the tree stored there.
NodeAt(addr, node) == [addr |-> addr, node |-> node]
\* impl Hash for Expr (expr.rs:234-238): std::ptr::hash(self, state) feeds
\* the address of the node to the hasher.
ExprHash(self) == self.addr
\* impl PartialEq for Expr (expr.rs:240-246): addr_of!(self) and
\* addr_of!(other) are the addresses of the two parameters of eq, which hold
\* the references, not the addresses of the nodes they refer to. The slots
\* are two locals alive in the same call.
EqSelfSlot == "eq.self"
EqOtherSlot == "eq.other"
ExprEq(self, other) == EqSelfSlot = EqOtherSlot

(***************************************************************************)
(* Interpreter (interpreter.rs:10-38)                                      *)
(***************************************************************************)
\* The key interpreter.rs:175 and :181 take: the address of the local expr,
\* a stack slot of the function, whichever node expr refers to. Whether the
\* slot of resolve and the slot of get_distance are one address depends on
\* the build and on the depth of the calls.
ResolveSlot == slots.resolve
GetDistanceSlot == slots.get_distance
SlotLayouts ==
    {[resolve |-> "stack.1", get_distance |-> g] : g \in {"stack.1", "stack.2"}}

\* Interpreter::new / for_closure / for_anon: the current frame, the specials
\* frame's "return" binding, the locals table.
NewInterpreter(env) == [env |-> env, ret |-> Absent, locals |-> <<>>]

\* Interpreter::get_distance (interpreter.rs:180-183)
get_distance(it, expr) ==
    IF GetDistanceSlot \in DOMAIN it.locals THEN Some(it.locals[GetDistanceSlot]) ELSE None

\* specials.define_top_level("return", value) and specials.get("return")
define_top_level(it, value) == [it EXCEPT !.ret = value]
get_return(it) == it.ret

R(tag, val, w) == [tag |-> tag, val |-> val, w |-> w]
S(tag, it, w, val) == [tag |-> tag, it |-> it, w |-> w, val |-> val]

\* The error arm with the two operand kinds exchanged in the message.
NotImplementedOnSwapped(left, right, op) ==
    [tag |-> "err",
     val |-> [msg |-> "Not implemented on", operator |-> op,
              left |-> to_type(right), right |-> to_type(left)]]

\* The catch-all arm of the Binary match (expr.rs:516-524).
NotImplementedOn(left, right, op) ==
    [tag |-> "err",
     val |-> [msg |-> "Not implemented on", operator |-> op,
              left |-> to_type(left), right |-> to_type(right)]]

\* The arms of the Binary match (expr.rs:461-525) for two evaluated operands.
BinaryOp(left, right, op) ==
    LET nn == left.kind = "Number" /\ right.kind = "Number"
        ss == left.kind = "String" /\ right.kind = "String"
    IN  CASE nn /\ op = "Greater" -> [tag |-> "ok", val |-> from_bool(NumLt(right, left))]
          [] nn /\ op = "GreaterEqual" -> [tag |-> "ok", val |-> from_bool(NumLe(right, left))]
          [] nn /\ op = "Less" -> [tag |-> "ok", val |-> from_bool(NumLt(left, right))]
          [] nn /\ op = "LessEqual" -> [tag |-> "ok", val |-> from_bool(NumLe(left, right))]
          [] ss /\ op = "Greater" -> [tag |-> "ok", val |-> from_bool(StrLt(right.s, left.s))]
          [] ss /\ op = "GreaterEqual" -> [tag |-> "ok", val |-> from_bool(~StrLt(left.s, right.s))]
          [] ss /\ op = "Less" -> [tag |-> "ok", val |-> from_bool(StrLt(left.s, right.s))]
          [] ss /\ op = "LessEqual" -> [tag |-> "ok", val |-> from_bool(~StrLt(right.s, left.s))]
          [] nn /\ op = "Star" -> [tag |-> "ok", val |-> NumMul(left, right)]
          [] nn /\ op = "Slash" -> [tag |-> "ok", val |-> NumDiv(left, right)]
          [] nn /\ op = "Minus" -> [tag |-> "ok", val |-> NumSub(left, right)]
          [] nn /\ op = "Plus" -> [tag |-> "ok", val |-> NumAdd(left, right)]
          [] ss /\ op = "Plus" -> [tag |-> "ok", val |-> StringValue(left.s \o right.s)]
          [] op = "EqualEqual" ->
                LET q == LiteralEq(left, right)
                IN  IF q.tag = "ok" THEN [tag |-> "ok", val |-> from_bool(q.val)] ELSE q
          [] op = "BangEqual" ->
                LET q == LiteralEq(left, right)
                IN  IF q.tag = "ok" THEN [tag |-> "ok", val |-> from_bool(~q.val)] ELSE q
          [] OTHER -> NotImplementedOn(left, right, op)

\* The arms of the Unary match (expr.rs:440-451).
UnaryOp(right, op) ==
    CASE right.kind = "Number" /\ op = "Minus" -> [tag |-> "ok", val |-> NumNeg(right)]
      [] op = "Bang" -> is_falsy(right)
      [] OTHER ->
            [tag |-> "err",
             val |-> [msg |-> "Not not a valid Unary operator on", operator |-> op,
                      right |-> to_type(right)]]

(***************************************************************************)
(* Expr::evaluvate (expr.rs:313-529) and Interpreter::interpret            *)
(* (interpreter.rs:52-172). w is the world: the frames, the printed lines, *)
(* the system time, and the log of the implementations invoked.            *)
(***************************************************************************)
RECURSIVE Evaluvate(_, _, _, _, _)
RECURSIVE EvalArgs(_, _, _, _, _, _, _)
RECURSIVE Invoke(_, _, _, _)
RECURSIVE RunBody(_, _, _, _, _)
RECURSIVE Interpret(_, _, _, _)
RECURSIVE InterpretFrom(_, _, _, _, _)
RECURSIVE Exec(_, _, _, _)
RECURSIVE WhileFrom(_, _, _, _)
RECURSIVE EnterBody(_, _, _, _)

\* The argument-count test rejecting only a call with too many arguments.
ArityCheckTooMany(callable, nargs) ==
    IF nargs > callable.arity
    THEN [tag |-> "err",
          val |-> [msg |-> "expexted arguments and got", name |-> callable.name,
                   expected |-> callable.arity, got |-> nargs]]
    ELSE [tag |-> "ok", val |-> Nil]

\* The Call arm's error for a wrong argument count (expr.rs:377-385).
ArityCheck(callable, nargs) ==
    IF nargs # callable.arity
    THEN [tag |-> "err",
          val |-> [msg |-> "expexted arguments and got", name |-> callable.name,
                   expected |-> callable.arity, got |-> nargs]]
    ELSE [tag |-> "ok", val |-> Nil]

\* The test of the left operand with `and` tested like `or`.
LogicalShortCircuitAsOr(lhs, op) ==
    LET t == is_truthy(lhs)
    IN  IF t.tag # "ok" THEN t ELSE [tag |-> "ok", val |-> t.val = True]

\* The Logical arm's test of the left operand (expr.rs:421-429): "ok" with
\* TRUE when the left operand is returned, FALSE when the right is evaluated.
LogicalShortCircuit(lhs, op) ==
    IF op = "Or"
    THEN LET t == is_truthy(lhs)
         IN  IF t.tag # "ok" THEN t ELSE [tag |-> "ok", val |-> t.val = True]
    ELSE LET t == is_falsy(lhs)
         IN  IF t.tag # "ok" THEN t ELSE [tag |-> "ok", val |-> t.val = True]

\* A value bound by LET and used more than once is written as the parameter
\* of a LET operator applied to it: after_x(E) for `let x = E;`.
Evaluvate(x, env, distance, w, fuel) ==
    CASE x.e = "AnonFunc" ->
            R("ok",
              Callable(<<"anon_function">>, Len(x.args),
                       [impl |-> "anon", params |-> x.args, body |-> x.body, env |-> env]),
              w)
      [] x.e = "Variable" ->
            LET after_get(g) ==
                    IF g.tag = "panic" THEN R("panic", [msg |-> g.val], w)
                    ELSE IF g.val.kind = "Absent"
                    THEN R("err", [msg |-> "is not defined", name |-> x.name], w)
                    ELSE R("ok", g.val, w)
            IN  after_get(EnvGet(w, env, x.name, distance))
      [] x.e = "Call" ->
            LET after_callable(c) ==
                    IF c.tag # "ok" THEN c
                    ELSE IF c.val.kind = "Callable"
                    THEN LET after_check(k) ==
                                 IF k.tag # "ok" THEN R(k.tag, k.val, c.w)
                                 ELSE LET after_args(a) ==
                                              IF a.tag # "ok" THEN a
                                              ELSE Invoke(c.val, a.val, a.w, fuel)
                                      IN  after_args(EvalArgs(x.args, 1, <<>>, env, distance,
                                                              c.w, fuel))
                         IN  after_check(ArityCheck(c.val, Len(x.args)))
                    ELSE R("err", [msg |-> "is not callable", type |-> to_type(c.val)], c.w)
            IN  after_callable(Evaluvate(x.callee, env, distance, w, fuel))
      [] x.e = "Assign" ->
            LET after_new_value(v) ==
                    IF v.tag # "ok" THEN v
                    ELSE LET after_assign(a) ==
                                 IF a.tag = "panic" THEN R("panic", [msg |-> a.val], a.w)
                                 ELSE IF a.val THEN R("ok", v.val, a.w)
                                 ELSE R("err", [msg |-> "has not been declared",
                                                name |-> x.name], a.w)
                         IN  after_assign(EnvAssign(v.w, env, x.name, v.val, distance))
            IN  after_new_value(Evaluvate(x.value, env, distance, w, fuel))
      [] x.e = "Logical" ->
            LET after_lhs_expr(l) ==
                    IF l.tag # "ok" THEN l
                    ELSE LET after_test(t) ==
                                 IF t.tag # "ok" THEN R(t.tag, [msg |-> t.val], l.w)
                                 ELSE IF t.val THEN l
                                 ELSE Evaluvate(x.right, env, distance, l.w, fuel)
                         IN  after_test(LogicalShortCircuit(l.val, x.operator))
            IN  after_lhs_expr(Evaluvate(x.left, env, distance, w, fuel))
      [] x.e = "Literal" -> R("ok", x.literal, w)
      [] x.e = "Grouping" -> Evaluvate(x.expression, env, distance, w, fuel)
      [] x.e = "Unary" ->
            LET after_right(r) ==
                    IF r.tag # "ok" THEN r
                    ELSE LET after_op(u) ==
                                 IF u.tag = "panic" THEN R("panic", [msg |-> u.val], r.w)
                                 ELSE R(u.tag, u.val, r.w)
                         IN  after_op(UnaryOp(r.val, x.operator))
            IN  after_right(Evaluvate(x.right, env, distance, w, fuel))
      [] x.e = "Binary" ->
            LET after_left(l) ==
                    IF l.tag # "ok" THEN l
                    ELSE LET after_right(r) ==
                                 IF r.tag # "ok" THEN r
                                 ELSE LET after_op(b) ==
                                              IF b.tag = "panic"
                                              THEN R("panic", [msg |-> b.val], r.w)
                                              ELSE R(b.tag, b.val, r.w)
                                      IN  after_op(BinaryOp(l.val, r.val, x.operator))
                         IN  after_right(Evaluvate(x.right, env, distance, l.w, fuel))
            IN  after_left(Evaluvate(x.left, env, distance, w, fuel))

\* The loop over the arguments (expr.rs:387-390): val is the Vec args_val.
EvalArgs(args, i, acc, env, distance, w, fuel) ==
    IF i > Len(args) THEN R("ok", acc, w)
    ELSE LET after_arg(a) ==
                 IF a.tag # "ok" THEN a
                 ELSE EvalArgs(args, i + 1, Append(acc, a.val), env, distance, a.w, fuel)
         IN  after_arg(Evaluvate(args[i], env, distance, w, fuel))

\* The loop binding the parameters (interpreter.rs:81-86, expr.rs:330-335).
RECURSIVE DefineParams(_, _, _, _, _)
DefineParams(w, f, params, args, i) ==
    IF i > Len(args) THEN w
    ELSE DefineParams(EnvDefine(w, f, params[i], args[i], Some(0)), f, params, args, i + 1)

\* A new frame whose enclosing link is the frame itself.
ForClosureOfItself(w, env) == Alloc(w, [NewEnvironment EXCEPT !.enclosing = LastIdx(w) + 1])

\* The frame of Interpreter::for_closure / for_anon (interpreter.rs:29-49):
\* a new frame enclosing the captured one.
ForClosure(w, env) == Alloc(w, [NewEnvironment EXCEPT !.enclosing = env])

\* The invocation logged: the callable and the number of arguments handed.
LogCall(w, callable, args) ==
    [w EXCEPT !.calls = Append(@, [name |-> callable.name, arity |-> callable.arity,
                                   nargs |-> Len(args)])]

\* func_impl up to the loop over the body.
EnterBody(callable, args, w, fuel) ==
    RunBody(callable.fun, 1, NewInterpreter(LastIdx(w) + 1),
            DefineParams(ForClosure(w, callable.fun.env), LastIdx(w) + 1,
                         callable.fun.params, args, 1),
            fuel - 1)

\* fun(&args_val) (expr.rs:392): clock_impl, or the func_impl closure of a
\* declared (interpreter.rs:77-100) or anonymous (expr.rs:326-352) function.
Invoke(callable, args, w, fuel) ==
    IF callable.fun.impl = "clock"
    THEN R("ok", Number(w.now), LogCall(w, callable, args))
    ELSE IF fuel = 0 THEN R("fuel", Nil, LogCall(w, callable, args))
    ELSE EnterBody(callable, args, LogCall(w, callable, args), fuel)

\* The loop over the body (interpreter.rs:89-99, expr.rs:338-351).
RunBody(fun, i, it, w, fuel) ==
    IF i > Len(fun.body) THEN R("ok", Nil, w)
    ELSE LET after_stmt(r) ==
                 IF r.tag = "err"
                 THEN R("panic", [msg |-> "Evaluvation failed inside", cause |-> r.val], r.w)
                 ELSE IF r.tag # "ok" THEN R(r.tag, r.val, r.w)
                 ELSE IF get_return(r.it).kind # "Absent" THEN R("ok", get_return(r.it), r.w)
                 ELSE RunBody(fun, i + 1, r.it, r.w, fuel)
         IN  after_stmt(Interpret(<<fun.body[i]>>, it, w, fuel))

\* for stmt in stmts (interpreter.rs:53, 170-171)
InterpretFrom(stmts, i, it, w, fuel) ==
    IF i > Len(stmts) THEN S("ok", it, w, Nil)
    ELSE LET after_stmt(r) ==
                 IF r.tag # "ok" THEN r ELSE InterpretFrom(stmts, i + 1, r.it, r.w, fuel)
         IN  after_stmt(Exec(stmts[i], it, w, fuel))

Interpret(stmts, it, w, fuel) == InterpretFrom(stmts, 1, it, w, fuel)

\* The WhileLoop arm (interpreter.rs:115-121) from the evaluation of cond on.
WhileFrom(st, it, w, fuel) ==
    LET after_cond(c) ==
            IF c.tag # "ok" THEN S(c.tag, it, c.w, c.val)
            ELSE LET after_truthy(t) ==
                         IF t.tag # "ok" THEN S(t.tag, it, c.w, [msg |-> t.val])
                         ELSE IF t.val # True THEN S("ok", it, c.w, Nil)
                         ELSE IF fuel = 0 THEN S("fuel", it, c.w, Nil)
                         ELSE LET after_body(r) ==
                                      IF r.tag # "ok" THEN r
                                      ELSE WhileFrom(st, r.it, r.w, fuel - 1)
                              IN  after_body(Interpret(<<st.body>>, it, c.w, fuel - 1))
                 IN  after_truthy(is_truthy(c.val))
    IN  after_cond(Evaluvate(st.cond, it.env, get_distance(it, st.cond), w, fuel))

\* The expression of a statement, evaluated as interpreter.rs:124 does.
EvalIn(x, it, w, fuel) == Evaluvate(x, it.env, get_distance(it, x), w, fuel)

\* The Block arm without self.environments = old_env.
leave_block_env(block_res, old_env) == block_res

\* self.environments = old_env; block_res?; (interpreter.rs:152-154)
restore_env(block_res, old_env) ==
    S(block_res.tag, [block_res.it EXCEPT !.env = old_env], block_res.w, block_res.val)

\* One arm of the match on stmt (interpreter.rs:54-169).
Exec(st, it, w, fuel) ==
    CASE st.s = "Return" ->
            IF st.value = None THEN S("ok", define_top_level(it, Nil), w, Nil)
            ELSE LET after_value(v) ==
                         IF v.tag # "ok" THEN S(v.tag, it, v.w, v.val)
                         ELSE S("ok", define_top_level(it, v.val), v.w, Nil)
                 IN  after_value(EvalIn(st.value, it, w, fuel))
      [] st.s = "Function" ->
            S("ok", it,
              EnvDefine(w, it.env, st.name,
                        Callable(TokenToString(st.name), Len(st.params),
                                 [impl |-> "closure", params |-> st.params,
                                  body |-> st.body, env |-> it.env]),
                        Some(0)),
              Nil)
      [] st.s = "WhileLoop" -> WhileFrom(st, it, w, fuel)
      [] st.s = "Expression" ->
            LET after_value(v) == S(v.tag, it, v.w, IF v.tag = "ok" THEN Nil ELSE v.val)
            IN  after_value(EvalIn(st.expression, it, w, fuel))
      [] st.s = "Print" ->
            LET after_value(v) ==
                    IF v.tag # "ok" THEN S(v.tag, it, v.w, v.val)
                    ELSE S("ok", it, [v.w EXCEPT !.out = Append(@, to_string(v.val))], Nil)
            IN  after_value(EvalIn(st.expression, it, w, fuel))
      [] st.s = "Var" ->
            LET after_value(v) ==
                    IF v.tag # "ok" THEN S(v.tag, it, v.w, v.val)
                    ELSE S("ok", it, EnvDefine(v.w, it.env, st.name, v.val, Some(0)), Nil)
            IN  after_value(EvalIn(st.initializer, it, w, fuel))
      [] st.s = "Block" ->
            restore_env(Interpret(st.stmts,
                                  [it EXCEPT !.env = LastIdx(w) + 1],
                                  ForClosure(w, it.env), fuel),
                        it.env)
      [] st.s = "IfElse" ->
            LET after_predicate(p) ==
                    IF p.tag # "ok" THEN S(p.tag, it, p.w, p.val)
                    ELSE LET after_truthy(t) ==
                                 IF t.tag # "ok" THEN S(t.tag, it, p.w, [msg |-> t.val])
                                 ELSE IF t.val = True
                                 THEN Interpret(<<st.then_branch>>, it, p.w, fuel)
                                 ELSE IF st.else_branch # None
                                 THEN Interpret(<<st.else_branch>>, it, p.w, fuel)
                                 ELSE S("ok", it, p.w, Nil)
                         IN  after_truthy(is_truthy(p.val))
            IN  after_predicate(EvalIn(st.predicate, it, w, fuel))

(***************************************************************************)
(* Parser (parser.rs). tokens is the Vec<Token>, ending with an Eof token; *)
(* c is self.current (0-based). A parsing function returns                 *)
(* [tag, node, cur, msg]: on "err" cur is the cursor the error left.       *)
(***************************************************************************)
Tok(tt) == [token_type |-> tt, lexeme |-> "", literal |-> None]
IdTok(n) == [token_type |-> "Identifier", lexeme |-> n, literal |-> None]
NumTok(n) == [token_type |-> "Number", lexeme |-> "", literal |-> Some(Number(n))]
StrTok(bs) == [token_type |-> "String_", lexeme |-> "", literal |-> Some(StringValue(bs))]

\* The cap on parameters and arguments (parser.rs:85, parser.rs:454).
MaxArgsCap == 255

POk(node, c) == [tag |-> "ok", node |-> node, cur |-> c, msg |-> ""]
PErr(msg, c) == [tag |-> "err", node |-> None, cur |-> c, msg |-> msg]

\* Parser::peek, is_at_end, check, advance, match_token (parser.rs:522-573)
peek(tokens, c) == tokens[c + 1]
is_at_end(tokens, c) == tokens[c + 1].token_type = "Eof"
check(tokens, c, tt) == IF is_at_end(tokens, c) THEN FALSE ELSE peek(tokens, c).token_type = tt
advance(tokens, c) == IF ~is_at_end(tokens, c) THEN c + 1 ELSE c
match_token(tokens, c, tt) ==
    IF is_at_end(tokens, c) THEN FALSE ELSE peek(tokens, c).token_type = tt

RECURSIVE match_tokens(_, _, _)
match_tokens(tokens, c, tts) ==
    IF tts = <<>> THEN FALSE
    ELSE IF match_token(tokens, c, Head(tts)) THEN TRUE
    ELSE match_tokens(tokens, c, Tail(tts))

\* Parser::consume (parser.rs:510-519): node is the consumed token.
consume(tokens, c, tt, msg) ==
    IF peek(tokens, c).token_type = tt
    THEN POk(peek(tokens, c), advance(tokens, c))
    ELSE PErr(msg, c)

\* LiteralValue::from_token (expr.rs:104-113) for the arm of Parser::primary.
from_token(token) ==
    CASE token.token_type \in {"Number", "String_"} -> token.literal.v
      [] token.token_type = "True" -> True
      [] token.token_type = "False" -> False
      [] token.token_type = "Nil" -> Nil

RECURSIVE declaration(_, _)
RECURSIVE function(_, _)
RECURSIVE params_loop(_, _, _)
RECURSIVE var_declaration(_, _)
RECURSIVE statement(_, _)
RECURSIVE for_statement(_, _)
RECURSIVE while_statement(_, _)
RECURSIVE if_statement(_, _)
RECURSIVE block(_, _)
RECURSIVE block_loop(_, _, _)
RECURSIVE print_expression(_, _)
RECURSIVE expression_statement(_, _)
RECURSIVE expression(_, _)
RECURSIVE assignment(_, _)
RECURSIVE or(_, _)
RECURSIVE and(_, _)
RECURSIVE equality(_, _)
RECURSIVE comparision(_, _)
RECURSIVE term(_, _)
RECURSIVE factor(_, _)
RECURSIVE binary_loop(_, _, _, _)
RECURSIVE binary_level(_, _, _)
RECURSIVE level_operand(_, _, _)
RECURSIVE unary(_, _)
RECURSIVE call(_, _)
RECURSIVE call_loop(_, _, _)
RECURSIVE finish_call(_, _, _)
RECURSIVE args_loop(_, _, _)
RECURSIVE primary(_, _)

\* Parser::declaration (parser.rs:58-66)
declaration(tokens, c) ==
    IF match_token(tokens, c, "Var") THEN var_declaration(tokens, c + 1)
    ELSE IF match_token(tokens, c, "Func") THEN function(tokens, c + 1)
    ELSE statement(tokens, c)

\* The loop of Parser::function over the parameters (parser.rs:84-98).
params_loop(tokens, c, params) ==
    IF Len(params) >= MaxArgsCap THEN PErr("Cannot have more than 255 args", c)
    ELSE LET after_param(p) ==
                 IF p.tag # "ok" THEN p
                 ELSE IF match_token(tokens, p.cur, "Comma")
                 THEN params_loop(tokens, p.cur + 1, Append(params, p.node.lexeme))
                 ELSE POk(Append(params, p.node.lexeme), p.cur)
         IN  after_param(consume(tokens, c, "Identifier", "Expected parameter name"))

\* Parser::function (parser.rs:69-121)
function(tokens, c) ==
    LET after_name(name) ==
          IF name.tag # "ok" THEN name ELSE
          LET after_left_paren(lp) ==
                IF lp.tag # "ok" THEN lp ELSE
                LET after_params(ps) ==
                      IF ps.tag # "ok" THEN ps ELSE
                      LET after_right_paren(rp) ==
                            IF rp.tag # "ok" THEN rp ELSE
                            LET after_left_brace(lb) ==
                                  IF lb.tag # "ok" THEN lb ELSE
                                  LET after_block(b) ==
                                        IF b.tag # "ok" THEN b
                                        ELSE POk(Function(name.node.lexeme, ps.node,
                                                          b.node.stmts), b.cur)
                                  IN  after_block(block(tokens, lb.cur))
                            IN  after_left_brace(consume(tokens, rp.cur, "LeftBrace",
                                                 "Expected '{' before \"Function\" name"))
                      IN  after_right_paren(consume(tokens, ps.cur, "RightParen",
                                                    "Expected ')' after parameters"))
                IN  after_params(IF ~check(tokens, lp.cur, "RightParen")
                                 THEN params_loop(tokens, lp.cur, <<>>)
                                 ELSE POk(<<>>, lp.cur))
          IN  after_left_paren(consume(tokens, name.cur, "LeftParen",
                                       "Expected '(' after \"Function\" name"))
    IN  after_name(consume(tokens, c, "Identifier", "Expected \"Function\" name"))

\* Parser::var_declaration (parser.rs:124-148)
var_declaration(tokens, c) ==
    LET after_token(name) ==
          IF name.tag # "ok" THEN name ELSE
          LET after_initializer(init) ==
                IF init.tag # "ok" THEN init ELSE
                LET after_semicolon(semi) ==
                      IF semi.tag # "ok" THEN semi
                      ELSE POk(VarStmt(name.node.lexeme, init.node), semi.cur)
                IN  after_semicolon(consume(tokens, init.cur, "Semicolon",
                                            "Expected ';' after variable declaration"))
          IN  after_initializer(IF match_token(tokens, name.cur, "Equal")
                                THEN expression(tokens, name.cur + 1)
                                ELSE POk(Literal(Nil), name.cur))
    IN  after_token(consume(tokens, c, "Identifier", "Expect variable name."))

\* Parser::statement (parser.rs:151-165)
statement(tokens, c) ==
    IF match_token(tokens, c, "Print") THEN print_expression(tokens, c + 1)
    ELSE IF match_token(tokens, c, "LeftBrace") THEN block(tokens, c + 1)
    ELSE IF match_token(tokens, c, "If") THEN if_statement(tokens, c + 1)
    ELSE IF match_token(tokens, c, "While") THEN while_statement(tokens, c + 1)
    ELSE IF match_token(tokens, c, "For") THEN for_statement(tokens, c + 1)
    ELSE expression_statement(tokens, c)

\* The desugaring that ends Parser::for_statement (parser.rs:199-231);
\* an absent clause is None.
for_desugar(init, cond, incr, body) ==
    LET body_incr == IF incr # None THEN Block(<<body, ExpressionStmt(incr)>>) ELSE body
        body_while == WhileLoop(IF cond # None THEN cond ELSE Literal(True), body_incr)
    IN  IF init # None THEN Block(<<init, body_while>>) ELSE body_while

\* Parser::for_statement (parser.rs:168-232)
for_statement(tokens, c) ==
    LET after_left_paren(lp) ==
          IF lp.tag # "ok" THEN lp ELSE
          LET after_initializer(init) ==
                IF init.tag # "ok" THEN init ELSE
                LET after_condition(cond) ==
                      IF cond.tag # "ok" THEN cond ELSE
                      LET after_semicolon(semi) ==
                            IF semi.tag # "ok" THEN semi ELSE
                            LET after_increment(incr) ==
                                  IF incr.tag # "ok" THEN incr ELSE
                                  LET after_right_paren(rp) ==
                                        IF rp.tag # "ok" THEN rp ELSE
                                        LET after_body(st) ==
                                              IF st.tag # "ok" THEN st
                                              ELSE POk(for_desugar(init.node, cond.node,
                                                                   incr.node, st.node), st.cur)
                                        IN  after_body(statement(tokens, rp.cur))
                                  IN  after_right_paren(consume(tokens, incr.cur, "RightParen",
                                                        "Expect ')' after for clauses."))
                            IN  after_increment(IF ~check(tokens, semi.cur, "RightParen")
                                                THEN expression(tokens, semi.cur)
                                                ELSE POk(None, semi.cur))
                      IN  after_semicolon(consume(tokens, cond.cur, "Semicolon",
                                                  "Expect ';' after loop condition."))
                IN  after_condition(IF ~check(tokens, init.cur, "Semicolon")
                                    THEN expression(tokens, init.cur)
                                    ELSE POk(None, init.cur))
          IN  after_initializer(IF match_token(tokens, lp.cur, "Semicolon")
                                THEN POk(None, lp.cur + 1)
                                ELSE IF match_token(tokens, lp.cur, "Var")
                                THEN var_declaration(tokens, lp.cur + 1)
                                ELSE expression_statement(tokens, lp.cur))
    IN  after_left_paren(consume(tokens, c, "LeftParen", "Expect '(' after 'for'."))

\* Parser::while_statement (parser.rs:235-243)
while_statement(tokens, c) ==
    LET after_left_paren(lp) ==
          IF lp.tag # "ok" THEN lp ELSE
          LET after_cond(cond) ==
                IF cond.tag # "ok" THEN cond ELSE
                LET after_right_paren(rp) ==
                      IF rp.tag # "ok" THEN rp ELSE
                      LET after_body(body) ==
                            IF body.tag # "ok" THEN body
                            ELSE POk(WhileLoop(cond.node, body.node), body.cur)
                      IN  after_body(statement(tokens, rp.cur))
                IN  after_right_paren(consume(tokens, cond.cur, "RightParen",
                                              "Expect ')' after condition."))
          IN  after_cond(expression(tokens, lp.cur))
    IN  after_left_paren(consume(tokens, c, "LeftParen", "Expect '(' after 'while'."))

\* Parser::if_statement (parser.rs:246-263)
if_statement(tokens, c) ==
    LET after_left_paren(lp) ==
          IF lp.tag # "ok" THEN lp ELSE
          LET after_predicate(pred) ==
                IF pred.tag # "ok" THEN pred ELSE
                LET after_right_paren(rp) ==
                      IF rp.tag # "ok" THEN rp ELSE
                      LET after_then(th) ==
                            IF th.tag # "ok" THEN th
                            ELSE IF match_token(tokens, th.cur, "Else")
                            THEN LET after_else(el) ==
                                       IF el.tag # "ok" THEN el
                                       ELSE POk(IfElse(pred.node, th.node, el.node), el.cur)
                                 IN  after_else(statement(tokens, th.cur + 1))
                            ELSE POk(IfElse(pred.node, th.node, None), th.cur)
                      IN  after_then(statement(tokens, rp.cur))
                IN  after_right_paren(consume(tokens, pred.cur, "RightParen",
                                              "Expected ')' after if-predicate"))
          IN  after_predicate(expression(tokens, lp.cur))
    IN  after_left_paren(consume(tokens, c, "LeftParen", "Expected '(' after 'if'"))

\* The loop of Parser::block (parser.rs:269-272).
block_loop(tokens, c, stmts) ==
    IF ~check(tokens, c, "RightBrace") /\ ~is_at_end(tokens, c)
    THEN LET after_declaration(d) ==
                 IF d.tag # "ok" THEN d ELSE block_loop(tokens, d.cur, Append(stmts, d.node))
         IN  after_declaration(declaration(tokens, c))
    ELSE POk(stmts, c)

\* Parser::block (parser.rs:266-277)
block(tokens, c) ==
    LET after_stmts(ss) ==
          IF ss.tag # "ok" THEN ss ELSE
          LET after_right_brace(rb) ==
                IF rb.tag # "ok" THEN rb ELSE POk(Block(ss.node), rb.cur)
          IN  after_right_brace(consume(tokens, ss.cur, "RightBrace", "Expect '}' after block."))
    IN  after_stmts(block_loop(tokens, c, <<>>))

\* Parser::print_expression (parser.rs:280-284)
print_expression(tokens, c) ==
    LET after_value(v) ==
          IF v.tag # "ok" THEN v ELSE
          LET after_semicolon(semi) ==
                IF semi.tag # "ok" THEN semi ELSE POk(PrintStmt(v.node), semi.cur)
          IN  after_semicolon(consume(tokens, v.cur, "Semicolon", "Expected ';' after value"))
    IN  after_value(expression(tokens, c))

\* Parser::expression_statement (parser.rs:287-291)
expression_statement(tokens, c) ==
    LET after_expr(v) ==
          IF v.tag # "ok" THEN v ELSE
          LET after_semicolon(semi) ==
                IF semi.tag # "ok" THEN semi ELSE POk(ExpressionStmt(v.node), semi.cur)
          IN  after_semicolon(consume(tokens, v.cur, "Semicolon",
                                      "Expected ';' after expression"))
    IN  after_expr(expression(tokens, c))

\* Parser::expression (parser.rs:293-295)
expression(tokens, c) == assignment(tokens, c)

\* assignment that takes a parenthesised variable as a target too.
assignment_to_grouping(tokens, c) ==
    LET after_expr(lhs) ==
          IF lhs.tag # "ok" THEN lhs
          ELSE IF match_token(tokens, lhs.cur, "Equal")
          THEN LET after_value(rhs) ==
                     IF rhs.tag # "ok" THEN rhs
                     ELSE IF lhs.node.e = "Variable"
                     THEN POk(Assign(lhs.node.name, rhs.node), rhs.cur)
                     ELSE IF lhs.node.e = "Grouping" /\ lhs.node.expression.e = "Variable"
                     THEN POk(Assign(lhs.node.expression.name, rhs.node), rhs.cur)
                     ELSE PErr("Invalid assignment target", rhs.cur)
               IN  after_value(assignment(tokens, lhs.cur + 1))
          ELSE lhs
    IN  after_expr(or(tokens, c))

\* Parser::assignment (parser.rs:298-320)
assignment(tokens, c) ==
    LET after_expr(lhs) ==
          IF lhs.tag # "ok" THEN lhs
          ELSE IF match_token(tokens, lhs.cur, "Equal")
          THEN LET after_value(rhs) ==
                     IF rhs.tag # "ok" THEN rhs
                     ELSE IF lhs.node.e = "Variable"
                     THEN POk(Assign(lhs.node.name, rhs.node), rhs.cur)
                     ELSE PErr("Invalid assignment target", rhs.cur)
               IN  after_value(assignment(tokens, lhs.cur + 1))
          ELSE lhs
    IN  after_expr(or(tokens, c))

\* if self.match_token(op) { rhs = operand()?; return Logical }, shared by
\* Parser::or and Parser::and; rhs is the right operand parsed after op.
logical_rhs(lhs, op, rhs) ==
    IF rhs.tag # "ok" THEN rhs ELSE POk(Logical(lhs.node, op, rhs.node), rhs.cur)

\* Parser::or (parser.rs:323-336)
or(tokens, c) ==
    LET after_lhs_expr(lhs) ==
          IF lhs.tag # "ok" THEN lhs
          ELSE IF match_token(tokens, lhs.cur, "Or")
          THEN logical_rhs(lhs, "Or", and(tokens, lhs.cur + 1))
          ELSE lhs
    IN  after_lhs_expr(and(tokens, c))

\* Parser::and (parser.rs:339-352)
and(tokens, c) ==
    LET after_lhs_expr(lhs) ==
          IF lhs.tag # "ok" THEN lhs
          ELSE IF match_token(tokens, lhs.cur, "And")
          THEN logical_rhs(lhs, "And", equality(tokens, lhs.cur + 1))
          ELSE lhs
    IN  after_lhs_expr(equality(tokens, c))

\* The levels with the operators of term and factor exchanged.
LevelOpsFactorBelowTerm(level) ==
    CASE level = "equality" -> <<"BangEqual", "EqualEqual">>
      [] level = "comparision" -> <<"Greater", "GreaterEqual", "LessEqual", "Less">>
      [] level = "term" -> <<"Slash", "Star">>
      [] level = "factor" -> <<"Minus", "Plus">>

\* The operators each binary level matches (parser.rs:357, 373, 390, 407).
LevelOps(level) ==
    CASE level = "equality" -> <<"BangEqual", "EqualEqual">>
      [] level = "comparision" -> <<"Greater", "GreaterEqual", "LessEqual", "Less">>
      [] level = "term" -> <<"Minus", "Plus">>
      [] level = "factor" -> <<"Slash", "Star">>

\* The operand of a binary level: the next level up.
level_operand(tokens, c, level) ==
    CASE level = "equality" -> comparision(tokens, c)
      [] level = "comparision" -> term(tokens, c)
      [] level = "term" -> factor(tokens, c)
      [] level = "factor" -> unary(tokens, c)

\* The while loop shared by equality, comparision, term and factor: match
\* one of the level's operators, parse the next level as the right operand,
\* and fold to the left.
binary_loop(tokens, c, lhs, level) ==
    IF match_tokens(tokens, c, LevelOps(level))
    THEN LET after_rhs_expr(rhs) ==
                 IF rhs.tag # "ok" THEN rhs
                 ELSE binary_loop(tokens, rhs.cur,
                                  Binary(lhs, peek(tokens, c).token_type, rhs.node), level)
         IN  after_rhs_expr(level_operand(tokens, c + 1, level))
    ELSE POk(lhs, c)

\* let mut lhs_expr = operand()?; then the level's loop.
binary_level(tokens, c, level) ==
    LET after_lhs_expr(lhs) ==
          IF lhs.tag # "ok" THEN lhs ELSE binary_loop(tokens, lhs.cur, lhs.node, level)
    IN  after_lhs_expr(level_operand(tokens, c, level))

\* Parser::equality (parser.rs:355-367)
equality(tokens, c) == binary_level(tokens, c, "equality")

\* Parser::comparision (parser.rs:370-384)
comparision(tokens, c) == binary_level(tokens, c, "comparision")

\* Parser::term (parser.rs:387-401)
term(tokens, c) == binary_level(tokens, c, "term")

\* Parser::factor (parser.rs:404-418)
factor(tokens, c) == binary_level(tokens, c, "factor")

\* Parser::unary (parser.rs:421-431)
unary(tokens, c) ==
    IF match_tokens(tokens, c, <<"Minus", "Bang">>)
    THEN LET after_rhs_expr(rhs) ==
                 IF rhs.tag # "ok" THEN rhs
                 ELSE POk(Unary(peek(tokens, c).token_type, rhs.node), rhs.cur)
         IN  after_rhs_expr(unary(tokens, c + 1))
    ELSE call(tokens, c)

\* The loop of Parser::call (parser.rs:436-442).
call_loop(tokens, c, expr) ==
    IF match_token(tokens, c, "LeftParen")
    THEN LET after_finish_call(r) ==
                 IF r.tag # "ok" THEN r ELSE call_loop(tokens, r.cur, r.node)
         IN  after_finish_call(finish_call(tokens, c + 1, expr))
    ELSE POk(expr, c)

\* Parser::call (parser.rs:434-444)
call(tokens, c) ==
    LET after_primary(p) == IF p.tag # "ok" THEN p ELSE call_loop(tokens, p.cur, p.node)
    IN  after_primary(primary(tokens, c))

\* The loop of Parser::finish_call over the arguments (parser.rs:452-465).
args_loop(tokens, c, args) ==
    LET after_arg(arg) ==
          IF arg.tag # "ok" THEN arg
          ELSE IF Len(args) >= MaxArgsCap THEN PErr("Cannot have more than 255 args", arg.cur)
          ELSE IF match_token(tokens, arg.cur, "Comma")
          THEN args_loop(tokens, arg.cur + 1, Append(args, arg.node))
          ELSE POk(Append(args, arg.node), arg.cur)
    IN  after_arg(expression(tokens, c))

\* Parser::finish_call (parser.rs:447-475)
finish_call(tokens, c, callee) ==
    LET after_args(args) ==
          IF args.tag # "ok" THEN args ELSE
          LET after_paren(paren) ==
                IF paren.tag # "ok" THEN paren ELSE POk(Call(callee, args.node), paren.cur)
          IN  after_paren(consume(tokens, args.cur, "RightParen",
                                  "Expexted ')' after arguments"))
    IN  after_args(IF ~check(tokens, c, "RightParen") THEN args_loop(tokens, c, <<>>)
                   ELSE POk(<<>>, c))

\* Parser::primary (parser.rs:478-507)
primary(tokens, c) ==
    CASE peek(tokens, c).token_type = "LeftParen" ->
            LET after_expr(expr) ==
                  IF expr.tag # "ok" THEN expr ELSE
                  LET after_right_paren(rp) ==
                        IF rp.tag # "ok" THEN rp ELSE POk(Grouping(expr.node), rp.cur)
                  IN  after_right_paren(consume(tokens, expr.cur, "RightParen", "Expected ')'"))
            IN  after_expr(expression(tokens, advance(tokens, c)))
      [] peek(tokens, c).token_type \in {"Number", "String_", "True", "False", "Nil"} ->
            POk(Literal(from_token(peek(tokens, c))), advance(tokens, c))
      [] peek(tokens, c).token_type = "Identifier" ->
            POk(Variable(peek(tokens, c).lexeme), advance(tokens, c))
      [] OTHER -> PErr("is not a primary", c)

\* Parser::synchronize (parser.rs:576-589): the cursor it leaves.
SyncStops == {"Class", "Func", "Var", "For", "If", "While", "Print", "Return"}

RECURSIVE synchronize_loop(_, _)
synchronize_loop(tokens, c) ==
    IF ~is_at_end(tokens, c)
    THEN IF peek(tokens, c).token_type \in SyncStops THEN c
         ELSE synchronize_loop(tokens, advance(tokens, c))
    ELSE c

\* synchronize without its first advance().
synchronize_from_failure(tokens, c) == synchronize_loop(tokens, c)

synchronize(tokens, c) == synchronize_loop(tokens, advance(tokens, c))

\* The loop of Parser::parse (parser.rs:31-43).
RECURSIVE parse_loop(_, _, _, _)
parse_loop(tokens, c, stmts, errors) ==
    IF ~is_at_end(tokens, c)
    THEN LET after_stmt(stmt) ==
                 IF stmt.tag = "ok"
                 THEN parse_loop(tokens, stmt.cur, Append(stmts, stmt.node), errors)
                 ELSE parse_loop(tokens, synchronize(tokens, stmt.cur), stmts,
                                 Append(errors, [msg |-> stmt.msg,
                                                 token |-> peek(tokens, stmt.cur).token_type]))
         IN  after_stmt(declaration(tokens, c))
    ELSE [stmts |-> stmts, errors |-> errors]

\* Parser::parse (parser.rs:26-55): Ok(stmts), or Err of the errors joined.
parse_result(r) ==
    IF r.errors = <<>> THEN [tag |-> "ok", stmts |-> r.stmts, errors |-> <<>>]
    ELSE [tag |-> "err", stmts |-> <<>>, errors |-> r.errors]

parse(tokens) == parse_result(parse_loop(tokens, 0, <<>>, <<>>))

(***************************************************************************)
(* Resolver (resolver.rs). rs is the Resolver: the stack of scopes         *)
(* (innermost last), each a map from Names to "absent", "false" (declared) *)
(* or "true" (defined), and the locals table of its interpreter. checks is *)
(* the build's overflow checking. A resolving function returns             *)
(* [tag, rs, msg].                                                         *)
(***************************************************************************)
EmptyScope == [n \in Names |-> "absent"]

\* Resolver::new (resolver.rs:13-18) on the interpreter main.rs:45 hands it.
NewResolver(it) == [scopes |-> <<>>, locals |-> it.locals]

ROk(rs) == [tag |-> "ok", rs |-> rs, msg |-> ""]
RErr(rs, msg) == [tag |-> "err", rs |-> rs, msg |-> msg]
RPanic(rs, msg) == [tag |-> "panic", rs |-> rs, msg |-> msg]

\* Resolver::begin_scope (resolver.rs:165-168)
begin_scope(rs) == [rs EXCEPT !.scopes = Append(@, EmptyScope)]

\* Resolver::end_scope (resolver.rs:170-173)
end_scope(rs) ==
    IF rs.scopes = <<>> THEN RPanic(rs, "Stack underflow during scope")
    ELSE ROk([rs EXCEPT !.scopes = SubSeq(@, 1, Len(@) - 1)])

\* Resolver::declare (resolver.rs:130-139)
declare(rs, name) ==
    IF rs.scopes = <<>> THEN rs
    ELSE [rs EXCEPT !.scopes[Len(rs.scopes)][name] = "false"]

\* Resolver::define (resolver.rs:141-150)
define(rs, name) ==
    IF rs.scopes = <<>> THEN rs
    ELSE [rs EXCEPT !.scopes[Len(rs.scopes)][name] = "true"]

\* Interpreter::resolve (interpreter.rs:174-178): the key is the address of
\* the parameter expr.
InterpreterResolve(rs, size) ==
    [rs EXCEPT !.locals = [k \in (DOMAIN @) \cup {ResolveSlot} |->
                              IF k = ResolveSlot THEN size ELSE @[k]]]

\* for i in (size - 1)..0 (resolver.rs:260-266), from index i on: a Rust
\* range a..b yields i while i < b.
RECURSIVE resolve_local_loop(_, _, _, _)
resolve_local_loop(rs, name, size, i) ==
    IF i < 0
    THEN IF rs.scopes[i + 1][name] # "absent"
         THEN ROk(InterpreterResolve(rs, size - 1 - i))
         ELSE resolve_local_loop(rs, name, size, i + 1)
    ELSE ROk(rs)

\* Resolver::resolve_local (resolver.rs:258-268). With no scope, size - 1
\* underflows usize: a panic when the build checks overflow, else usize::MAX,
\* and the range usize::MAX..0 is empty.
resolve_local(rs, name, checks) ==
    IF Len(rs.scopes) = 0
    THEN IF checks THEN RPanic(rs, "attempt to subtract with overflow") ELSE ROk(rs)
    ELSE resolve_local_loop(rs, name, Len(rs.scopes), Len(rs.scopes) - 1)

\* Resolver::resolve_expr_var (resolver.rs:238-256): get(..).unwrap() panics
\* on a name the innermost scope does not hold.
resolve_expr_var(rs, expr, checks) ==
    IF rs.scopes # <<>> /\ rs.scopes[Len(rs.scopes)][expr.name] = "absent"
    THEN RPanic(rs, "called Option::unwrap() on a None value")
    ELSE IF rs.scopes # <<>> /\ rs.scopes[Len(rs.scopes)][expr.name] = "false"
    THEN RErr(rs, "Cannot read local variable in its own initialization")
    ELSE resolve_local(rs, expr.name, checks)

RECURSIVE resolve(_, _, _)
RECURSIVE resolve_many_from(_, _, _, _)
RECURSIVE resolve_expr(_, _, _)
RECURSIVE resolve_exprs_from(_, _, _, _)
RECURSIVE resolve_function_helper(_, _, _, _)
RECURSIVE resolve_block(_, _, _)

\* self.resolve_expr(a)?; self.resolve_expr(b)?
resolve_expr_pair(rs, a, b, checks) ==
    LET after_first(r) == IF r.tag # "ok" THEN r ELSE resolve_expr(r.rs, b, checks)
    IN  after_first(resolve_expr(rs, a, checks))

\* Resolver::resolve_expr_assign (resolver.rs:227-236)
resolve_expr_assign(rs, expr, checks) ==
    LET after_value(r) == IF r.tag # "ok" THEN r ELSE resolve_local(r.rs, expr.name, checks)
    IN  after_value(resolve_expr(rs, expr.value, checks))

\* for arg in args { self.resolve_expr(arg)?; } (resolver.rs:197-199)
resolve_exprs_from(rs, args, i, checks) ==
    IF i > Len(args) THEN ROk(rs)
    ELSE LET after_arg(r) ==
                 IF r.tag # "ok" THEN r ELSE resolve_exprs_from(r.rs, args, i + 1, checks)
         IN  after_arg(resolve_expr(rs, args[i], checks))

\* Resolver::resolve_expr (resolver.rs:175-225)
resolve_expr(rs, expr, checks) ==
    CASE expr.e = "Variable" -> resolve_expr_var(rs, expr, checks)
      [] expr.e = "Assign" -> resolve_expr_assign(rs, expr, checks)
      [] expr.e = "Binary" -> resolve_expr_pair(rs, expr.left, expr.right, checks)
      [] expr.e = "Call" ->
            LET after_callee(r) ==
                    IF r.tag # "ok" THEN r ELSE resolve_exprs_from(r.rs, expr.args, 1, checks)
            IN  after_callee(resolve_expr(rs, expr.callee, checks))
      [] expr.e = "Grouping" -> resolve_expr(rs, expr.expression, checks)
      [] expr.e = "Literal" -> ROk(rs)
      [] expr.e = "Logical" -> resolve_expr_pair(rs, expr.left, expr.right, checks)
      [] expr.e = "Unary" -> resolve_expr(rs, expr.right, checks)
      [] expr.e = "AnonFunc" -> resolve_function_helper(rs, expr.args, expr.body, checks)

\* for param in params { declare; define } (resolver.rs:101-104)
RECURSIVE define_params(_, _, _)
define_params(rs, params, i) ==
    IF i > Len(params) THEN rs
    ELSE define_params(define(declare(rs, params[i]), params[i]), params, i + 1)

\* Resolver::resolve_function_helper (resolver.rs:95-108)
resolve_function_helper(rs, params, body, checks) ==
    LET after_body(r) == IF r.tag # "ok" THEN r ELSE end_scope(r.rs)
    IN  after_body(resolve_many_from(define_params(begin_scope(rs), params, 1), body, 1, checks))

\* Resolver::resolve_function (resolver.rs:82-92)
resolve_function(rs, stmt, checks) ==
    resolve_function_helper(define(declare(rs, stmt.name), stmt.name),
                            stmt.params, stmt.body, checks)

\* Resolver::resolve_many (resolver.rs:111-116), from statement i on.
resolve_many_from(rs, stmts, i, checks) ==
    IF i > Len(stmts) THEN ROk(rs)
    ELSE LET after_stmt(r) ==
                 IF r.tag # "ok" THEN r ELSE resolve_many_from(r.rs, stmts, i + 1, checks)
         IN  after_stmt(resolve(rs, stmts[i], checks))

resolve_many(rs, stmts, checks) == resolve_many_from(rs, stmts, 1, checks)

\* Resolver::resolve_var (resolver.rs:118-128)
resolve_var(rs, stmt, checks) ==
    LET after_initializer(r) == IF r.tag # "ok" THEN r ELSE ROk(define(r.rs, stmt.name))
    IN  after_initializer(resolve_expr(declare(rs, stmt.name), stmt.initializer, checks))

\* Resolver::resolve_block (resolver.rs:153-163)
resolve_block(rs, stmt, checks) ==
    LET after_stmts(r) == IF r.tag # "ok" THEN r ELSE end_scope(r.rs)
    IN  after_stmts(resolve_many_from(begin_scope(rs), stmt.stmts, 1, checks))

\* Resolver::resolve_if_else (resolver.rs:64-80)
resolve_if_else(rs, stmt, checks) ==
    LET after_predicate(p) ==
          IF p.tag # "ok" THEN p ELSE
          LET after_then(t) ==
                IF t.tag # "ok" THEN t
                ELSE IF stmt.else_branch # None THEN resolve(t.rs, stmt.else_branch, checks)
                ELSE t
          IN  after_then(resolve(p.rs, stmt.then_branch, checks))
    IN  after_predicate(resolve_expr(rs, stmt.predicate, checks))

\* Resolver::resolve (resolver.rs:20-62)
resolve(rs, stmt, checks) ==
    CASE stmt.s = "Block" -> resolve_block(rs, stmt, checks)
      [] stmt.s = "Var" -> resolve_var(rs, stmt, checks)
      [] stmt.s = "Function" -> resolve_function(rs, stmt, checks)
      [] stmt.s = "Expression" -> resolve_expr(rs, stmt.expression, checks)
      [] stmt.s = "IfElse" -> resolve_if_else(rs, stmt, checks)
      [] stmt.s = "Print" -> resolve_expr(rs, stmt.expression, checks)
      [] stmt.s = "Return" ->
            IF stmt.value # None THEN resolve_expr(rs, stmt.value, checks) ELSE ROk(rs)
      [] stmt.s = "WhileLoop" ->
            LET after_cond(r) == IF r.tag # "ok" THEN r ELSE resolve(r.rs, stmt.body, checks)
            IN  after_cond(resolve_expr(rs, stmt.cond, checks))

(***************************************************************************)
(* main.rs: run, the stages of one source text from its tokens on. The     *)
(* outcome is [stage, tag, val, it, w].                                    *)
(***************************************************************************)
RunOutcome(stage, tag, val, it, w) ==
    [stage |-> stage, tag |-> tag, val |-> val, it |-> it, w |-> w]

\* interpreter.borrow_mut().interpret(stmts)? (main.rs:47)
run_interpret(stmts, it, w, fuel) ==
    LET after_interpret(r) == RunOutcome("interpret", r.tag, r.val, r.it, r.w)
    IN  after_interpret(Interpret(stmts, it, w, fuel))

\* Resolver::new(..); resolver.resolve_many(..)? (main.rs:45-46)
run_resolve(stmts, it, w, checks, fuel) ==
    LET after_resolve(r) ==
          IF r.tag # "ok"
          THEN RunOutcome("resolve", r.tag, [msg |-> r.msg],
                          [it EXCEPT !.locals = r.rs.locals], w)
          ELSE run_interpret(stmts, [it EXCEPT !.locals = r.rs.locals], w, fuel)
    IN  after_resolve(resolve_many(NewResolver(it), stmts, checks))

\* fn run (main.rs:38-50) after scan_tokens.
run(tokens, it, w, checks, fuel) ==
    LET after_parse(p) ==
          IF p.tag # "ok" THEN RunOutcome("parse", "err", [errors |-> p.errors], it, w)
          ELSE run_resolve(p.stmts, it, w, checks, fuel)
    IN  after_parse(parse(tokens))

(***************************************************************************)
(* Scanner (scanner.rs). The source is a sequence of characters, a         *)
(* character a one-character string; `current` and `start` are 0-based     *)
(* byte indices as in the code. Nul is the '\0' the lookaheads return at   *)
(* the end; OutOfBounds stands for an index past the end of the byte       *)
(* slice, which panics.                                                    *)
(***************************************************************************)
Nul == "NUL"
OutOfBounds == "index out of bounds"

is_digit(ch) == ch \in {"0", "1", "2", "3", "4", "5", "6", "7", "8", "9"}

is_alpha(ch) ==
    ch \in {"a", "b", "c", "d", "e", "f", "g", "h", "i", "j", "k", "l", "m",
            "n", "o", "p", "q", "r", "s", "t", "u", "v", "w", "x", "y", "z",
            "A", "B", "C", "D", "E", "F", "G", "H", "I", "J", "K", "L", "M",
            "N", "O", "P", "Q", "R", "S", "T", "U", "V", "W", "X", "Y", "Z", "_"}

NewScanner(source) ==
    [source |-> source, tokens |-> <<>>, start |-> 0, current |-> 0, line |-> 1]

scanner_is_at_end(sc) == sc.current >= Len(sc.source)

scanner_peek(sc) == IF scanner_is_at_end(sc) THEN Nul ELSE sc.source[sc.current + 1]

peek_next(sc) ==
    IF sc.current + 1 > Len(sc.source) THEN Nul
    ELSE IF sc.current + 1 < Len(sc.source) THEN sc.source[sc.current + 2]
    ELSE OutOfBounds

\* The scanner after advance(); the character advance() returns is
\* scanner_peek of the scanner before.
scanner_advance(sc) ==
    IF scanner_is_at_end(sc) THEN sc ELSE [sc EXCEPT !.current = @ + 1]

\* The scanner after char_match(c); char_match returned true iff it moved.
char_match(sc, c) ==
    IF scanner_is_at_end(sc) THEN sc
    ELSE IF sc.source[sc.current + 1] # c THEN sc
    ELSE [sc EXCEPT !.current = @ + 1]

add_token_lit(sc, token_type, literal) ==
    [sc EXCEPT !.tokens = Append(@, [token_type |-> token_type,
                                     lexeme |-> SubSeq(sc.source, sc.start + 1, sc.current),
                                     literal |-> literal,
                                     line_number |-> sc.line])]

\* The four advancing loops: over digits (number), over letters and digits
\* (identifier), to the end of the line (a comment) and to the closing
\* quote, counting the lines passed (string_literal).
RECURSIVE advance_while(_, _)
advance_while(sc, loop) ==
    LET c == scanner_peek(sc)
        goes_on == CASE loop = "digits" -> is_digit(c)
                     [] loop = "alpha_num" -> is_alpha(c) \/ is_digit(c)
                     [] loop = "comment" -> ~(c = "\n" \/ scanner_is_at_end(sc))
                     [] loop = "string" -> ~scanner_is_at_end(sc) /\ c # "\""
        counted == IF loop = "string" /\ c = "\n" THEN [sc EXCEPT !.line = @ + 1] ELSE sc
    IN  IF goes_on THEN advance_while(scanner_advance(counted), loop) ELSE sc

\* identifier(): the lexeme is looked up in the keywords of Scanner::new.
identifier(sc) ==
    LET a == advance_while(sc, "alpha_num")
        substring == SubSeq(a.source, a.start + 1, a.current)
        token_type ==
            CASE substring = <<"a", "n", "d">> -> "And"
              [] substring = <<"o", "r">> -> "Or"
              [] substring = <<"c", "l", "a", "s", "s">> -> "Class"
              [] substring = <<"e", "l", "s", "e">> -> "Else"
              [] substring = <<"i", "f">> -> "If"
              [] substring = <<"t", "r", "u", "e">> -> "True"
              [] substring = <<"f", "a", "l", "s", "e">> -> "False"
              [] substring = <<"f", "o", "r">> -> "For"
              [] substring = <<"n", "i", "l">> -> "Nil"
              [] substring = <<"p", "r", "i", "n", "t">> -> "Print"
              [] substring = <<"r", "e", "t", "u", "r", "n">> -> "Return"
              [] substring = <<"f", "u", "n", "c">> -> "Func"
              [] substring = <<"t", "h", "i", "s">> -> "This"
              [] substring = <<"w", "h", "i", "l", "e">> -> "While"
              [] substring = <<"s", "u", "p", "e", "r">> -> "Super"
              [] substring = <<"v", "a", "r">> -> "Var"
              [] OTHER -> "Identifier"
    IN  [tag |-> "ok", sc |-> add_token_lit(a, token_type, None), msg |-> <<>>]

\* number(): the second operand of && is evaluated only after a '.', and
\* there peek_next indexes the byte after it. The lexeme is digits or
\* digits '.' digits, which parse::<f64> always accepts; its value is taken
\* as the decimal fraction written.
number(sc) ==
    LET a == advance_while(sc, "digits")
        dot == scanner_peek(a) = "."
        b == IF dot /\ is_digit(peek_next(a))
             THEN advance_while(scanner_advance(a), "digits")
             ELSE a
        s == SubSeq(b.source, b.start + 1, b.current)
        digit(ch) == CHOOSE k \in 0..9 : Digit(k) = ch
        RECURSIVE value(_, _, _)
        value(i, n, d) ==
            IF i > Len(s) THEN Rat(n, IF d = 0 THEN 1 ELSE d)
            ELSE IF s[i] = "." THEN value(i + 1, n, 1)
            ELSE value(i + 1, 10 * n + digit(s[i]), 10 * d)
    IN  IF dot /\ peek_next(a) = OutOfBounds
        THEN [tag |-> "panic", sc |-> a, msg |-> <<OutOfBounds>>]
        ELSE [tag |-> "ok", sc |-> add_token_lit(b, "Number", Some(value(1, 0, 0))),
              msg |-> <<>>]

string_literal(sc) ==
    LET a == scanner_advance(advance_while(sc, "string"))
    IN  IF scanner_is_at_end(a)
        THEN [tag |-> "err", sc |-> a, msg |-> <<"String is not terminated">>]
        ELSE [tag |-> "ok",
              sc |-> add_token_lit(a, "String_",
                                   Some(StringValue(SubSeq(a.source, a.start + 2, a.current - 1)))),
              msg |-> <<>>]

\* scan_token() of a scanner that is not at the end of its source.
scan_token(sc) ==
    LET c == scanner_peek(sc)
        s == scanner_advance(sc)
        ok(t) == [tag |-> "ok", sc |-> t, msg |-> <<>>]
        add_token(token_type) == ok(add_token_lit(s, token_type, None))
        one_or_two(one, two) ==
            IF char_match(s, "=") # s
            THEN ok(add_token_lit(char_match(s, "="), two, None))
            ELSE add_token(one)
    IN  CASE c = "(" -> add_token("LeftParen")
          [] c = ")" -> add_token("RightParen")
          [] c = "{" -> add_token("LeftBrace")
          [] c = "}" -> add_token("RightBrace")
          [] c = "," -> add_token("Comma")
          [] c = "." -> add_token("Dot")
          [] c = "+" -> add_token("Plus")
          [] c = "-" -> add_token("Minus")
          [] c = ";" -> add_token("Semicolon")
          [] c = "*" -> add_token("Star")
          [] c = "!" -> one_or_two("Bang", "BangEqual")
          [] c = "=" -> one_or_two("Equal", "EqualEqual")
          [] c = ">" -> one_or_two("Greater", "GreaterEqual")
          [] c = "<" -> one_or_two("Less", "LessEqual")
          [] c = "/" -> IF char_match(s, "/") # s
                        THEN ok(advance_while(char_match(s, "/"), "comment"))
                        ELSE add_token("Slash")
          [] c = "\"" -> string_literal(s)
          [] c \in {" ", "\r", "\t"} -> ok(s)
          [] c = "\n" -> ok([s EXCEPT !.line = @ + 1])
          [] OTHER ->
               IF is_digit(c) THEN number(s)
               ELSE IF is_alpha(c) THEN identifier(s)
               ELSE [tag |-> "err", sc |-> s,
                     msg |-> <<"Unrecognised char", c, "at line", s.line>>]

vars == <<phase, input, result, world, interp, overflow_checks, slots, runs, scanner, scan_errors,
         parser>>

\* Calls and loop iterations one operation may nest.
Fuel == 3
\* The longest argument list drawn.
MaxArgs == 2

NoResult == [stage |-> "none", tag |-> "none", val |-> Nil]
\* No source is being scanned.
NoScanner == NewScanner(<<>>)
\* Parser::new (parser.rs:19-21): the cursor, and the stmts and errors that
\* Parser::parse collects; the tokens are the input's.
NewParser == [current |-> 0, stmts |-> <<>>, errors |-> <<>>]

\* The world of Interpreter::new(): one frame, nothing printed.
World0 == [frames |-> <<NewEnvironment>>, out |-> <<>>, now |-> 7, calls |-> <<>>]

\* The world the component operations start from: frame 1 is the top frame
\* after `a = 1;` and `var b = true;`, frame 2 a block frame opened in it
\* after `var a = nil;`.
EvalWorld ==
    LET w1 == EnvAssign(World0, 1, "a", Number(1), None).w
        w2 == EnvDefine(w1, 1, "b", True, Some(0))
        w3 == Alloc(w2, [NewEnvironment EXCEPT !.enclosing = 1])
    IN  EnvDefine(w3, 2, "a", Nil, Some(0))

EvalFrames == {1, 2}
Distances == {None, Some(0), Some(1), Some(2)}

One == Literal(Number(1))
PrintOne == PrintStmt(One)

Vals == {Number(0), Number(1), StringValue(<<>>), StringValue(<<48>>), True, False, Nil}
Operands == {Literal(v) : v \in Vals} \cup {Variable("clock"), AnonFunc(<<>>, <<>>)}
BinOps == {"Greater", "GreaterEqual", "Less", "LessEqual", "Plus", "Minus", "Star", "Slash",
           "EqualEqual", "BangEqual"}
UnOps == {"Minus", "Bang", "Plus"}
LogOps == {"Or", "And"}
\* Right operands and arguments: a value, a write, a call that prints.
Effects == {One, Assign("b", Literal(StringValue(<<48>>))), Call(AnonFunc(<<>>, <<PrintOne>>), <<>>)}
Callees == {Variable("clock"), AnonFunc(<<>>, <<PrintOne>>),
            AnonFunc(<<"a">>, <<Return(One)>>), AnonFunc(<<"a", "b">>, <<>>), Literal(Nil)}
ArgLists == UNION {[1..n -> Effects] : n \in 0..MaxArgs}

ExprInputs ==
    Operands \cup {Variable("a"), Variable("b")}
    \cup {Binary(l, op, r) : l \in Operands, op \in BinOps, r \in Operands}
    \cup {Unary(op, r) : op \in UnOps, r \in Operands}
    \cup {Logical(l, op, r) : l \in Operands, op \in LogOps, r \in Effects}
    \cup {Call(c, args) : c \in Callees, args \in ArgLists}
    \cup {Assign(n, One) : n \in {"a", "b", "f"}}

Zero == Literal(Number(0))
PrintZero == PrintStmt(Zero)

\* if / while on each operand.
CondPrograms ==
    {<<IfElse(c, PrintOne, PrintZero)>> : c \in Operands}
    \cup {<<IfElse(c, PrintOne, None)>> : c \in Operands}
    \cup {<<WhileLoop(c, PrintOne)>> : c \in Operands}

\* print (func () { body })();
PrintCallOf(body) == <<PrintStmt(Call(AnonFunc(<<>>, body), <<>>))>>

\* Function bodies whose first executed return is `return 1;`, followed in
\* the same call by a statement that prints 0 or returns 0.
AfterReturn == {PrintZero, Return(Zero)}
CountingLoop ==
    <<ExpressionStmt(Assign("a", Zero)),
      WhileLoop(Binary(Variable("a"), "Less", Literal(Number(2))),
                Return(Assign("a", Binary(Variable("a"), "Plus", One))))>>
ReturnBodies ==
    {<<Return(One), t>> : t \in AfterReturn}
    \cup {<<Block(<<Return(One), t>>)>> : t \in AfterReturn}
    \cup {<<Block(<<Block(<<Return(One)>>), t>>)>> : t \in AfterReturn}
    \cup {<<IfElse(Literal(True), Block(<<Return(One), t>>), None)>> : t \in AfterReturn}
    \cup {<<IfElse(Literal(True), Return(One), None), t>> : t \in AfterReturn}
    \cup {<<Return(One)>>, <<Block(<<Return(One)>>)>>, CountingLoop}
ReturnPrograms == {PrintCallOf(body) : body \in ReturnBodies}

\* a = v1; f = (func () { { [var b = v1;] return func () { return x; }; } })();
\* x = v2; print f();   with x the top frame's a or the block's b.
ClosureProgram(x, v1, v2) ==
    LET inner == AnonFunc(<<>>, <<Return(Variable(x))>>)
        decl == IF x = "b" THEN <<VarStmt("b", Literal(v1))>> ELSE <<>>
        outer == AnonFunc(<<>>, <<Block(decl \o <<Return(inner)>>)>>)
    IN  <<ExpressionStmt(Assign("a", Literal(v1))),
          ExpressionStmt(Assign("f", Call(outer, <<>>))),
          ExpressionStmt(Assign("a", Literal(v2))),
          PrintStmt(Call(Variable("f"), <<>>))>>
\* The same with a declared function:
\* a = v1; { func f() { return a; } b = f; } a = v2; print b();
DeclaredClosureProgram(v1, v2) ==
    <<ExpressionStmt(Assign("a", Literal(v1))),
      Block(<<Function("f", <<>>, <<Return(Variable("a"))>>),
              ExpressionStmt(Assign("b", Variable("f")))>>),
      ExpressionStmt(Assign("a", Literal(v2))),
      PrintStmt(Call(Variable("b"), <<>>))>>
ClosureVals == {Number(0), Number(1), Nil}
ClosurePrograms ==
    {ClosureProgram(x, v1, v2) : x \in {"a", "b"}, v1 \in ClosureVals, v2 \in ClosureVals}
    \cup {DeclaredClosureProgram(v1, v2) : v1 \in ClosureVals, v2 \in ClosureVals}

\* Expressions raising each runtime error: undefined variable, operator type
\* mismatch, calling a non-callable, arity mismatch.
RuntimeErrors ==
    {Variable("f"), Binary(One, "Minus", Literal(Nil)), Unary("Minus", Literal(Nil)),
     Call(Literal(Nil), <<>>), Call(Variable("clock"), <<One>>)}
\* The error raised at top level, and inside the body of a called function.
ErrorPrograms ==
    {<<PrintOne, ExpressionStmt(x)>> : x \in RuntimeErrors}
    \cup {<<PrintOne, ExpressionStmt(Call(AnonFunc(<<>>, <<ExpressionStmt(x)>>), <<>>))>> :
             x \in RuntimeErrors}
    \cup {<<PrintOne, Block(<<ExpressionStmt(x)>>), PrintZero>> : x \in RuntimeErrors}

OtherPrograms ==
    {<<VarStmt("a", One), PrintStmt(Variable("a"))>>,
     <<Function("f", <<"a">>, <<Return(Variable("a"))>>),
       PrintStmt(Call(Variable("f"), <<One>>))>>,
     <<Return(None)>>}

\* f = v; in one frame and print f; in another: a nested block or the body
\* of a called function on either side.
AssignF(v) == ExpressionStmt(Assign("f", Literal(v)))
PrintF == PrintStmt(Variable("f"))
CallOfBody(body) == ExpressionStmt(Call(AnonFunc(<<>>, body), <<>>))
GlobalPrograms ==
    UNION {{<<Block(<<AssignF(v)>>), PrintF>>,
            <<CallOfBody(<<AssignF(v)>>), PrintF>>,
            <<AssignF(v), Block(<<PrintF>>)>>,
            <<AssignF(v), CallOfBody(<<PrintF>>)>>,
            <<AssignF(v), PrintF>>} : v \in ClosureVals}

Programs == CondPrograms \cup ReturnPrograms \cup ClosurePrograms \cup ErrorPrograms
            \cup OtherPrograms \cup GlobalPrograms

\* The nodes of the test expr_traits (expr.rs:581-659), built at one of the
\* addresses: a node used as the key of a map and a node looked up in it. One
\* address holds one node.
MinusOne == Unary("Minus", One)
NodeTrees == {One, MinusOne, Binary(MinusOne, "Star", Grouping(Zero))}
NodeAddrs == {1, 2}
NodePairs ==
    {[key |-> NodeAt(a, n), probe |-> NodeAt(b, m)] :
        a \in NodeAddrs, b \in NodeAddrs, n \in NodeTrees, m \in NodeTrees}

Inputs ==
    {[kind |-> "expr", env |-> f, x |-> x, d |-> d] :
        f \in EvalFrames, x \in ExprInputs, d \in Distances}
    \cup {[kind |-> "stmts", env |-> f, stmts |-> p] : f \in EvalFrames, p \in Programs}
    \cup {[kind |-> "define", env |-> f, name |-> n, value |-> v, d |-> d] :
             f \in EvalFrames, n \in {"a", "b", "f"}, v \in {Number(0), Nil}, d \in Distances}
    \cup {[kind |-> "nodes", env |-> 1, key |-> np.key, probe |-> np.probe] :
             np \in {q \in NodePairs : q.key.addr = q.probe.addr => q.key.node = q.probe.node}}

Finished == phase \in {"done", "aborted"}

Init ==
    /\ phase = "ready"
    /\ input \in Inputs
    /\ result = NoResult
    /\ world = EvalWorld
    /\ interp = NewInterpreter(input.env)
    /\ overflow_checks \in BOOLEAN
    /\ slots \in SlotLayouts
    /\ runs = 0
    /\ scanner = NoScanner
    /\ scan_errors = <<>>
    /\ parser = NewParser

\* expr.evaluvate(env, distance) on the input expression.
DoEvaluvate ==
    /\ phase = "ready"
    /\ input.kind = "expr"
    /\ LET after_evaluvate(r) ==
               /\ result' = [stage |-> "evaluvate", tag |-> r.tag, val |-> r.val]
               /\ world' = r.w
               /\ phase' = IF r.tag = "panic" THEN "aborted" ELSE "done"
       IN  after_evaluvate(Evaluvate(input.x, interp.env, input.d, world, Fuel))
    /\ UNCHANGED <<input, interp, overflow_checks, slots, runs, scanner, scan_errors, parser>>

\* interpreter.interpret(stmts) on the input statements.
DoInterpret ==
    /\ phase = "ready"
    /\ input.kind = "stmts"
    /\ LET after_interpret(r) ==
               /\ result' = [stage |-> "interpret", tag |-> r.tag, val |-> r.val]
               /\ world' = r.w
               /\ interp' = r.it
               /\ phase' = IF r.tag = "panic" THEN "aborted" ELSE "done"
       IN  after_interpret(Interpret(input.stmts, interp, world, Fuel))
    /\ UNCHANGED <<input, overflow_checks, slots, runs, scanner, scan_errors, parser>>

\* HashMap::get of std: an entry is found when a key of the map has the hash
\* of the looked-up key and is equal to it.
HashMapFinds(keys, k, eq(_, _)) == \E e \in keys : ExprHash(e) = ExprHash(k) /\ eq(e, k)
\* PartialEq of std's Rc<T> for T: Eq: the same allocation, or equal contents.
RcEq(a, b) == a.addr = b.addr \/ ExprEq(a, b)

\* key == probe, and hm.insert(key, 2); hm.get(&probe) on a map keyed by the
\* node and on a map keyed by an Rc of it (expr.rs:616-620, :653-657).
DoExprTraits ==
    /\ phase = "ready"
    /\ input.kind = "nodes"
    /\ result' = [stage |-> "expr_traits", tag |-> "ok",
                  val |-> [eq |-> ExprEq(input.key, input.probe),
                           found |-> HashMapFinds({input.key}, input.probe, ExprEq),
                           found_rc |-> HashMapFinds({input.key}, input.probe, RcEq)]]
    /\ phase' = "done"
    /\ UNCHANGED <<input, world, interp, overflow_checks, slots, runs, scanner, scan_errors, parser>>

\* The hop counts recorded.
HopCounts == {0, 1}

\* interpreter.resolve(key, size); then interpreter.resolve(probe, other)
\* when probe is another node; then get_distance(key) and
\* get_distance(probe) (interpreter.rs:174-183).
DoResolve(size, other) ==
    /\ phase = "ready"
    /\ input.kind = "nodes"
    /\ LET after_resolve(rs) ==
               /\ interp' = [interp EXCEPT !.locals = rs.locals]
               /\ result' = [stage |-> "get_distance", tag |-> "ok",
                             val |-> [size |-> size, other |-> other,
                                      of_key |-> get_distance([interp EXCEPT !.locals = rs.locals],
                                                              input.key),
                                      of_probe |-> get_distance([interp EXCEPT !.locals = rs.locals],
                                                                input.probe)]]
           after_key(rs) ==
               IF input.key.addr = input.probe.addr THEN after_resolve(rs)
               ELSE after_resolve(InterpreterResolve(rs, other))
       IN  after_key(InterpreterResolve(NewResolver(interp), size))
    /\ phase' = "done"
    /\ UNCHANGED <<input, world, overflow_checks, slots, runs, scanner, scan_errors, parser>>

\* env.define(name, value, distance), then env.get(name, Some(0)).
DoDefine ==
    /\ phase = "ready"
    /\ input.kind = "define"
    /\ LET after_define(w) ==
               /\ world' = w
               /\ result' = [stage |-> "define", tag |-> "ok",
                             val |-> EnvGet(w, input.env, input.name, Some(0)).val]
       IN  after_define(EnvDefine(world, input.env, input.name, input.value, input.d))
    /\ phase' = "done"
    /\ UNCHANGED <<input, interp, overflow_checks, slots, runs, scanner, scan_errors, parser>>

Next ==
    \/ DoEvaluvate
    \/ DoInterpret
    \/ DoDefine
    \/ DoExprTraits
    \/ \E size \in HopCounts, other \in HopCounts : DoResolve(size, other)

Spec == Init /\ [][Next]_vars

(***************************************************************************)
(* Properties of the component operations, checked under Spec.             *)
(***************************************************************************)
EvaluvateDone == Finished /\ input.kind = "expr"
InterpretDone == Finished /\ input.kind = "stmts"

\* The kind of the value an operand evaluates to at distance d, "unknown"
\* when the read does not yield a value there.
OperandKind(x, d) ==
    CASE x.e = "Literal" -> to_type(x.literal)
      [] x.e = "AnonFunc" -> "Callable"
      [] x.e = "Variable" /\ x.name = "clock" /\ d = None -> "Callable"
      [] OTHER -> "unknown"

\* Truthiness as the language defines it for the values that are no Callable.
Truthy(v) ==
    CASE v.kind = "Nil" -> FALSE
      [] v.kind = "False" -> FALSE
      [] v.kind = "True" -> TRUE
      [] v.kind = "Number" -> ~(v.n = 0 /\ v.d = 1)
      [] v.kind = "String" -> v.s # <<>>

CallablePanic ==
    /\ phase = "aborted"
    /\ result.tag = "panic"
    /\ result.val = [msg |-> "Cannot use callable as truthy value"]

\* The arity of the callee of a Call, -1 when the callee is no Callable there.
CalleeArity(c, d) ==
    CASE c.e = "AnonFunc" -> Len(c.args)
      [] c.e = "Variable" /\ c.name = "clock" /\ d = None -> 0
      [] OTHER -> -1

\* C5: a call whose argument count differs from the callee's arity ends in a
\* runtime error naming the expected and the actual count, with no
\* implementation invoked; and every invocation logged was handed exactly
\* arity arguments.
C5_ArityMismatchIsError ==
    /\ (EvaluvateDone /\ input.x.e = "Call"
          /\ CalleeArity(input.x.callee, input.d) >= 0
          /\ Len(input.x.args) # CalleeArity(input.x.callee, input.d))
       => /\ phase = "done"
          /\ result.tag = "err"
          /\ result.val.expected = CalleeArity(input.x.callee, input.d)
          /\ result.val.got = Len(input.x.args)
          /\ world.calls = <<>>
    /\ \A i \in 1..Len(world.calls) : world.calls[i].nargs = world.calls[i].arity

\* A two-parameter function called with one argument has returned the error.
C5_Witness ==
    /\ EvaluvateDone
    /\ input.x.e = "Call"
    /\ input.x.callee = AnonFunc(<<"a", "b">>, <<>>)
    /\ Len(input.x.args) = 1
    /\ result.tag = "err"
    /\ result.val.expected = 2
    /\ result.val.got = 1

\* The statements print 1 exactly when the condition c is truthy.
CondOutcome(stmts, c, truthy) ==
    /\ stmts = <<IfElse(c, PrintOne, PrintZero)>>
         => /\ result.tag = "ok"
            /\ world.out = IF truthy THEN <<to_string(Number(1))>> ELSE <<to_string(Number(0))>>
    /\ stmts = <<IfElse(c, PrintOne, None)>>
         => /\ result.tag = "ok"
            /\ world.out = IF truthy THEN <<to_string(Number(1))>> ELSE <<>>
    /\ stmts = <<WhileLoop(c, PrintOne)>>
         => IF truthy THEN world.out # <<>> /\ result.tag = "fuel"
            ELSE world.out = <<>> /\ result.tag = "ok"

\* The Logical returned its left operand v and nothing else happened.
LeftReturned(v) == result.tag = "ok" /\ result.val = v /\ world = EvalWorld

TruthyOfAny(x) == IF x.e = "Literal" THEN Truthy(x.literal) ELSE TRUE

RightAlone == Evaluvate(input.x.right, input.env, input.d, EvalWorld, Fuel)

\* The Logical returned what its right operand evaluates to, with its effects.
RightReturned ==
    /\ result.tag = RightAlone.tag
    /\ result.val = RightAlone.val
    /\ world = RightAlone.w

CallableOperand(x) ==
    IF x.e = "Variable" THEN get_globals[x.name]
    ELSE Callable(<<"anon_function">>, Len(x.args),
                  [impl |-> "anon", params |-> x.args, body |-> x.body, env |-> input.env])

CrossKindEquality ==
    /\ EvaluvateDone
    /\ input.x.e = "Binary"
    /\ input.x.operator \in {"EqualEqual", "BangEqual"}
    /\ OperandKind(input.x.left, input.d) # "unknown"
    /\ OperandKind(input.x.right, input.d) # "unknown"
    /\ OperandKind(input.x.left, input.d) # OperandKind(input.x.right, input.d)

\* C8: == on two values of different kinds is False and != is True, with no
\* error and no abort.
C8_CrossKindEqualityIsFalse ==
    CrossKindEquality
    => /\ phase = "done"
       /\ result.tag = "ok"
       /\ result.val = IF input.x.operator = "EqualEqual" THEN False ELSE True

\* The operand-kind pairs each binary operator is defined on.
BinaryDefined(op, l, r) ==
    CASE op \in {"Greater", "GreaterEqual", "Less", "LessEqual", "Plus"} ->
            (l = "Number" /\ r = "Number") \/ (l = "String" /\ r = "String")
      [] op \in {"Minus", "Star", "Slash"} -> l = "Number" /\ r = "Number"
      [] OTHER -> TRUE

\* The operand kinds each unary operator is defined on (`!` on every kind).
UnaryDefined(op, r) == op = "Bang" \/ (op = "Minus" /\ r = "Number")

\* C9: a binary operator among < <= > >= + - * / on an operand-kind pair it
\* does not define, and a unary operator on a kind it does not define, end
\* in a runtime error naming the operand kinds: no value, no abort.
C9_UndefinedOperandKindsIsTypeError ==
    /\ (EvaluvateDone /\ input.x.e = "Binary"
          /\ OperandKind(input.x.left, input.d) # "unknown"
          /\ OperandKind(input.x.right, input.d) # "unknown"
          /\ ~BinaryDefined(input.x.operator, OperandKind(input.x.left, input.d),
                            OperandKind(input.x.right, input.d)))
       => /\ phase = "done"
          /\ result.tag = "err"
          /\ result.val.left = OperandKind(input.x.left, input.d)
          /\ result.val.right = OperandKind(input.x.right, input.d)
    /\ (EvaluvateDone /\ input.x.e = "Unary"
          /\ OperandKind(input.x.right, input.d) # "unknown"
          /\ ~UnaryDefined(input.x.operator, OperandKind(input.x.right, input.d)))
       => /\ phase = "done"
          /\ result.tag = "err"
          /\ result.val.right = OperandKind(input.x.right, input.d)

\* `"0" + 1` has returned the error naming String and Number.
C9_Witness ==
    /\ EvaluvateDone
    /\ input.x = Binary(Literal(StringValue(<<48>>)), "Plus", Literal(Number(1)))
    /\ result.tag = "err"
    /\ result.val.left = "String"
    /\ result.val.right = "Number"

\* C1: a function created inside a block and called after the block has
\* exited reads an outer variable's value at call time: with the variable
\* assigned v2 between creation and call, the program prints v2 (and the
\* block's own b, never reassigned, prints as it was declared).
C1_ClosureReadsValueAtCallTime ==
    /\ \A x \in {"a", "b"}, v1 \in ClosureVals, v2 \in ClosureVals :
         (InterpretDone /\ input.stmts = ClosureProgram(x, v1, v2))
         => /\ result.tag = "ok"
            /\ world.out = <<to_string(IF x = "a" THEN v2 ELSE v1)>>
    /\ \A v1 \in ClosureVals, v2 \in ClosureVals :
         (InterpretDone /\ input.stmts = DeclaredClosureProgram(v1, v2))
         => /\ result.tag = "ok"
            /\ world.out = <<to_string(v2)>>

\* C3: once a return has executed in a call, no further statement of the
\* call executes and the call's value is the one of that first return: each
\* program printing the call of a body whose first executed return is
\* `return 1;` prints 1 and nothing else.
C3_NothingRunsAfterReturn ==
    (InterpretDone /\ input.stmts \in ReturnPrograms)
    => /\ result.tag = "ok"
       /\ world.out = <<to_string(Number(1))>>

\* C10: every runtime error, one raised in the body of a called function
\* included, is returned as an error value: the run ends with the error,
\* the process does not abort.
C10_RuntimeErrorIsReturned ==
    (InterpretDone /\ input.stmts \in ErrorPrograms)
    => /\ phase = "done"
       /\ result.tag = "err"
       /\ world.out = <<to_string(Number(1))>>

\* The frame k enclosing links above frame f of the starting world, 0 when
\* the links run out.
RECURSIVE FrameAbove(_, _)
FrameAbove(f, k) ==
    IF f = 0 \/ k = 0 THEN f ELSE FrameAbove(EvalWorld.frames[f].enclosing, k - 1)

\* An assignment at a present distance whose target frame exists and does
\* not bind the name.
AssignToUnbound ==
    /\ EvaluvateDone
    /\ input.x.e = "Assign"
    /\ input.x.value.e = "Literal"
    /\ input.d # None
    /\ FrameAbove(input.env, input.d.v) # 0
    /\ EvalWorld.frames[FrameAbove(input.env, input.d.v)].values[input.x.name] = Absent

\* C11: assigning at a present distance to a name the target frame does not
\* bind ends in a runtime error and creates no binding in any frame.
C11_AssignToUnboundIsError ==
    AssignToUnbound
    => /\ phase = "done"
       /\ result.tag = "err"
       /\ world = EvalWorld

\* C12: a value assigned with absent distance in one frame is the value a
\* read with absent distance yields in every other frame of the run: each
\* program assigning f = v in one frame and printing f in another (or the
\* same) prints v.
C12_OneGlobalFrame ==
    \A v \in ClosureVals :
        (InterpretDone
           /\ input.stmts \in {<<Block(<<AssignF(v)>>), PrintF>>,
                               <<CallOfBody(<<AssignF(v)>>), PrintF>>,
                               <<AssignF(v), Block(<<PrintF>>)>>,
                               <<AssignF(v), CallOfBody(<<PrintF>>)>>,
                               <<AssignF(v), PrintF>>})
        => /\ phase = "done"
           /\ result.tag = "ok"
           /\ world.out = <<to_string(v)>>

(***************************************************************************)
(* The prompt (main.rs:53-72): one interpreter for the session, one run    *)
(* per submission. A submission is the token sequence of a buffer that     *)
(* ends with ';' or '}'.                                                   *)
(***************************************************************************)
\* Submissions one session runs.
MaxRuns == 2

Src(ts) == ts \o <<Tok("Eof")>>

TokExprs ==
    {<<NumTok(1)>>,
     <<IdTok("a")>>,
     <<IdTok("a"), Tok("Equal"), NumTok(1)>>,
     <<IdTok("clock"), Tok("LeftParen"), Tok("RightParen")>>,
     <<IdTok("clock"), Tok("LeftParen"), NumTok(1), Tok("RightParen")>>,
     <<NumTok(1), Tok("LeftParen"), Tok("RightParen")>>,
     <<NumTok(1), Tok("EqualEqual"), Tok("Nil")>>,
     <<NumTok(1), Tok("Minus"), Tok("Nil")>>,
     <<Tok("Nil"), Tok("Or"), StrTok(<<48>>)>>,
     <<Tok("RightParen")>>}

\* print e;   e;   var a = e;   { var a = e; }   func f() { var a = e; }
\* if (e) print 1; else print 0;
PrintOf(e) == <<Tok("Print")>> \o e \o <<Tok("Semicolon")>>
VarOf(n, e) == <<Tok("Var"), IdTok(n), Tok("Equal")>> \o e \o <<Tok("Semicolon")>>
BlockOf(ts) == <<Tok("LeftBrace")>> \o ts \o <<Tok("RightBrace")>>
FuncOf(n, body) ==
    <<Tok("Func"), IdTok(n), Tok("LeftParen"), Tok("RightParen")>> \o BlockOf(body)
CallOf(n) == <<IdTok(n), Tok("LeftParen"), Tok("RightParen")>>
ReturnOf(e) == <<Tok("Return")>> \o e \o <<Tok("Semicolon")>>

\* var a = a;  at global scope, in a block, in a function body.
SelfInitGlobal == Src(VarOf("a", <<IdTok("a")>>))
SelfInitBlock == Src(BlockOf(VarOf("a", <<IdTok("a")>>)))
SelfInitFunction == Src(FuncOf("f", VarOf("a", <<IdTok("a")>>)))

\* func f() { body } print f();
FunctionSource(body) == Src(FuncOf("f", body) \o PrintOf(CallOf("f")))
FunctionBodies ==
    {ReturnOf(<<NumTok(5)>>), ReturnOf(<<>>), <<>>, PrintOf(<<NumTok(1)>>),
     PrintOf(<<NumTok(1)>>) \o ReturnOf(<<NumTok(5)>>)}
FunctionSources == {FunctionSource(body) : body \in FunctionBodies}

LoopSources ==
    {Src(<<Tok("While"), Tok("LeftParen"), IdTok("a"), Tok("RightParen"),
           IdTok("a"), Tok("Equal"), Tok("Nil"), Tok("Semicolon")>>),
     Src(<<Tok("For"), Tok("LeftParen"), Tok("Var"), IdTok("b"), Tok("Equal"), NumTok(1),
           Tok("Semicolon"), IdTok("b"), Tok("Semicolon"),
           IdTok("b"), Tok("Equal"), Tok("Nil"), Tok("RightParen")>>
         \o PrintOf(<<IdTok("b")>>))}

\* func f(a) { if (a <= 1) return a; return f(a - 1) + f(a - 2); }
\* for (var b = 1; b <= 20; b = b + 1) print f(b);
FibSource ==
    Src(<<Tok("Func"), IdTok("f"), Tok("LeftParen"), IdTok("a"), Tok("RightParen"),
          Tok("LeftBrace"),
          Tok("If"), Tok("LeftParen"), IdTok("a"), Tok("LessEqual"), NumTok(1),
          Tok("RightParen"), Tok("Return"), IdTok("a"), Tok("Semicolon"),
          Tok("Return"),
          IdTok("f"), Tok("LeftParen"), IdTok("a"), Tok("Minus"), NumTok(1), Tok("RightParen"),
          Tok("Plus"),
          IdTok("f"), Tok("LeftParen"), IdTok("a"), Tok("Minus"), NumTok(2), Tok("RightParen"),
          Tok("Semicolon"),
          Tok("RightBrace"),
          Tok("For"), Tok("LeftParen"), Tok("Var"), IdTok("b"), Tok("Equal"), NumTok(1),
          Tok("Semicolon"), IdTok("b"), Tok("LessEqual"), NumTok(20), Tok("Semicolon"),
          IdTok("b"), Tok("Equal"), IdTok("b"), Tok("Plus"), NumTok(1), Tok("RightParen"),
          Tok("Print"), IdTok("f"), Tok("LeftParen"), IdTok("b"), Tok("RightParen"),
          Tok("Semicolon")>>)

\* func f(a) { if (a) f(nil); print a; } f(1);
RecursiveSource ==
    Src(<<Tok("Func"), IdTok("f"), Tok("LeftParen"), IdTok("a"), Tok("RightParen"),
          Tok("LeftBrace"),
          Tok("If"), Tok("LeftParen"), IdTok("a"), Tok("RightParen"),
          IdTok("f"), Tok("LeftParen"), Tok("Nil"), Tok("RightParen"), Tok("Semicolon"),
          Tok("Print"), IdTok("a"), Tok("Semicolon"),
          Tok("RightBrace"),
          IdTok("f"), Tok("LeftParen"), NumTok(1), Tok("RightParen"), Tok("Semicolon")>>)

\* for ([var b = 0]; [b < 3]; [b = b + 1]) print b;  with each clause present
\* or omitted.
ForSource(init, cond, incr) ==
    Src(<<Tok("For"), Tok("LeftParen")>>
        \o (IF init THEN VarOf("b", <<NumTok(0)>>) ELSE <<Tok("Semicolon")>>)
        \o (IF cond THEN <<IdTok("b"), Tok("Less"), NumTok(3)>> ELSE <<>>)
        \o <<Tok("Semicolon")>>
        \o (IF incr THEN <<IdTok("b"), Tok("Equal"), IdTok("b"), Tok("Plus"), NumTok(1)>>
            ELSE <<>>)
        \o <<Tok("RightParen")>> \o PrintOf(<<IdTok("b")>>))
ForSources == {ForSource(i, c, n) : i \in BOOLEAN, c \in BOOLEAN, n \in BOOLEAN}

\* { var a = 1; print a; }     { var a = 1; { print a; } }
\* { print clock; }             { a = 1; }     { var a = 1; { a = 1; } }
LocalReadSource == Src(BlockOf(VarOf("a", <<NumTok(1)>>) \o PrintOf(<<IdTok("a")>>)))
OuterReadSource ==
    Src(BlockOf(VarOf("a", <<NumTok(1)>>) \o BlockOf(PrintOf(<<IdTok("a")>>))))
GlobalReadSource == Src(BlockOf(PrintOf(<<IdTok("clock")>>)))
GlobalAssignSource == Src(BlockOf(<<IdTok("a"), Tok("Equal"), NumTok(1), Tok("Semicolon")>>))
OuterAssignSource ==
    Src(BlockOf(VarOf("a", <<NumTok(1)>>)
                \o BlockOf(<<IdTok("a"), Tok("Equal"), NumTok(1), Tok("Semicolon")>>)))
ScopeSources ==
    {LocalReadSource, OuterReadSource, GlobalReadSource, GlobalAssignSource, OuterAssignSource}

Submissions ==
    ScopeSources \cup
    {Src(PrintOf(e)) : e \in TokExprs}
    \cup {Src(e \o <<Tok("Semicolon")>>) : e \in TokExprs}
    \cup {Src(VarOf("a", e)) : e \in TokExprs}
    \cup {Src(BlockOf(VarOf("a", e))) : e \in TokExprs}
    \cup {Src(FuncOf("f", VarOf("a", e))) : e \in TokExprs}
    \cup {Src(<<Tok("If"), Tok("LeftParen")>> \o e \o <<Tok("RightParen")>>
              \o PrintOf(<<NumTok(1)>>) \o <<Tok("Else")>> \o PrintOf(<<NumTok(0)>>)) :
             e \in TokExprs}
    \cup FunctionSources \cup LoopSources
    \cup {FibSource, RecursiveSource} \cup ForSources

\* println!("{}", e) for the Err run returns (main.rs:68): a parse error is
\* its messages, each ended by a newline.
RECURSIVE ErrorLinesOf(_)
ErrorLinesOf(errors) ==
    IF errors = <<>> THEN <<>>
    ELSE <<<<Head(errors).msg>>>> \o ErrorLinesOf(Tail(errors))
Printed(r) ==
    IF r.tag # "err" THEN <<>>
    ELSE IF r.stage = "parse" THEN ErrorLinesOf(r.val.errors) \o <<<<>>>>
    ELSE <<<<r.val.msg>>>>

InitRepl ==
    /\ phase = "prompt"
    /\ input = [kind |-> "none"]
    /\ result = NoResult
    /\ world = World0
    /\ interp = NewInterpreter(1)
    /\ overflow_checks \in BOOLEAN
    /\ slots \in SlotLayouts
    /\ runs = 0
    /\ scanner = NoScanner
    /\ scan_errors = <<>>
    /\ parser = NewParser

\* One turn of the loop of run_prompt on a submission (main.rs:56-70): run
\* it, print the error it returned, print the empty line. A panic ends the
\* process; a run out of fuel has not returned.
Submit(tokens) ==
    /\ phase = "prompt"
    /\ runs < MaxRuns
    /\ LET after_run(r) ==
               /\ result' = [stage |-> r.stage, tag |-> r.tag, val |-> r.val]
               /\ interp' = r.it
               /\ world' = IF r.tag \in {"ok", "err"}
                           THEN [r.w EXCEPT !.out = @ \o Printed(r) \o <<<<>>>>]
                           ELSE r.w
               /\ phase' = CASE r.tag = "panic" -> "aborted"
                             [] r.tag = "fuel" -> "running"
                             [] OTHER -> "prompt"
       IN  after_run(run(tokens, interp, world, overflow_checks, Fuel))
    /\ input' = [kind |-> "source", tokens |-> tokens]
    /\ runs' = runs + 1
    /\ UNCHANGED <<overflow_checks, slots, scanner, scan_errors, parser>>

\* The line "exit" or an empty line (main.rs:62-64): exit(0).
Exit ==
    /\ phase = "prompt"
    /\ phase' = "exited"
    /\ UNCHANGED <<input, result, world, interp, overflow_checks, slots, runs, scanner, scan_errors, parser>>

NextRepl == (\E tokens \in Submissions : Submit(tokens)) \/ Exit

ReplSpec == InitRepl /\ [][NextRepl]_vars

(***************************************************************************)
(* Properties of the whole pipeline, checked under ReplSpec.               *)
(***************************************************************************)
\* The first submission of the session has run tokens.
FirstRun(tokens) == runs = 1 /\ input.kind = "source" /\ input.tokens = tokens

\* What `func f() { body } print f();` prints: the lines of the body, then
\* the value of the call.
FunctionOutput(body) ==
    CASE body = ReturnOf(<<NumTok(5)>>) -> <<to_string(Number(5))>>
      [] body = ReturnOf(<<>>) -> <<to_string(Nil)>>
      [] body = <<>> -> <<to_string(Nil)>>
      [] body = PrintOf(<<NumTok(1)>>) -> <<to_string(Number(1)), to_string(Nil)>>
      [] body = PrintOf(<<NumTok(1)>>) \o ReturnOf(<<NumTok(5)>>) ->
            <<to_string(Number(1)), to_string(Number(5))>>

\* C2: run through the whole pipeline, the call of a declared function
\* executes its body in order and yields the value of the return that
\* executed, or Nil when none executed or it had no expression.
C2_FunctionCallYieldsReturnValue ==
    \A body \in FunctionBodies :
        FirstRun(FunctionSource(body))
        => /\ phase = "prompt"
           /\ result.tag = "ok"
           /\ world.out = FunctionOutput(body) \o <<<<>>>>

\* C4: `var a = a;` in a block or a function body is a resolution error; at
\* global scope its resolution ends with no error and no abort.
C4_SelfInitializer ==
    /\ (FirstRun(SelfInitBlock) \/ FirstRun(SelfInitFunction))
       => /\ result.stage = "resolve"
          /\ result.tag = "err"
          /\ result.val.msg = "Cannot read local variable in its own initialization"
    /\ FirstRun(SelfInitGlobal)
       => ~(result.stage = "resolve" /\ result.tag \in {"err", "panic"})


\* The first n Fibonacci numbers 1, 1, 2, 3, ... as printed lines.
RECURSIVE FibNumber(_)
FibNumber(n) == IF n <= 2 THEN 1 ELSE FibNumber(n - 1) + FibNumber(n - 2)
FibLines(n) == [i \in 1..n |-> to_string(Number(FibNumber(i)))]

\* C13: a named function can call itself by name from its own body: the
\* recursive Fibonacci program run through the whole pipeline resolves
\* without error and prints the first 20 Fibonacci numbers in order, and a
\* recursive function without any return resolves and runs too.
C13_RecursiveFunction ==
    /\ FirstRun(FibSource)
       => /\ phase = "prompt"
          /\ result.tag = "ok"
          /\ world.out = FibLines(20) \o <<<<>>>>
    /\ FirstRun(RecursiveSource)
       => /\ phase = "prompt"
          /\ result.tag = "ok"
          /\ world.out = <<to_string(Nil), to_string(Number(1)), <<>> >>

\* The statement { init; while (cond) { body; incr; } } of the for loop over
\* b, with the block, the condition and the increment as the clauses given.
ForAsWhile(init, cond, incr) ==
    LET body == PrintStmt(Variable("b"))
        step == ExpressionStmt(Assign("b", Binary(Variable("b"), "Plus", Literal(Number(1)))))
        loop == WhileLoop(IF cond THEN Binary(Variable("b"), "Less", Literal(Number(3)))
                          ELSE Literal(True),
                          IF incr THEN Block(<<body, step>>) ELSE body)
    IN  IF init THEN Block(<<VarStmt("b", Literal(Number(0))), loop>>) ELSE loop

\* The parser's half: each for loop over b parses to the while statement of
\* the clauses present.
ForParsesAsWhile ==
    \A i \in BOOLEAN, c \in BOOLEAN, n \in BOOLEAN :
        FirstRun(ForSource(i, c, n))
        => /\ result.stage # "parse"
           /\ parse(input.tokens).stmts = <<ForAsWhile(i, c, n)>>

\* C14: `for (init; cond; incr) body` is the statement
\* { init; while (cond) { body; incr; } }, with the outer block only when
\* init is present, the increment appended only when present and an omitted
\* cond the literal true; and `for (var b = 0; b < 3; b = b + 1) print b;`
\* prints 0, 1, 2.
C14_ForIsWhile ==
    /\ ForParsesAsWhile
    /\ FirstRun(ForSource(TRUE, TRUE, TRUE))
       => /\ phase = "prompt"
          /\ result.tag = "ok"
          /\ world.out = <<to_string(Number(0)), to_string(Number(1)), to_string(Number(2)),
                           <<>> >>

(***************************************************************************)
(* The front end on its own: scan_tokens on a source, one scan_token per   *)
(* step, and Parser::parse on a token list.                                *)
(***************************************************************************)
\* The longest source drawn from SourceChars.
MaxSrcLen == 4
\* The most operators in a chain of operands.
MaxOps == 3
\* The most declarations in a program of Declarations.
MaxDecls == 2

SourceChars == {"1", ".", "\"", "a", "@", "\n", "/"}

\* The sources of the scanner's tests (scanner.rs:455-497), the second
\* literal of number_literal_test cut to 43.42.
StringTestSource ==
    <<"\"", "H", "e", "l", "l", "o", " ", "w", "o", "r", "l", "d", "\"", " ">>
StringMultilineTestSource ==
    <<"\"", "H", "e", "l", "l", "o", "\n", "W", "o", "r", "l", "d", "\"", "\n">>
NumberTestSource ==
    <<"1", "2", "3", ".", "3", "2", "1", "\n",
      "4", "3", ".", "4", "2", "\n",
      "5", ".", "\n", "1", "\n", ".", "1">>

RECURSIVE SourcesUpTo(_)
SourcesUpTo(n) ==
    IF n = 0 THEN {<<>>}
    ELSE LET shorter == SourcesUpTo(n - 1)
         IN  shorter \cup {Append(src, c) : src \in shorter, c \in SourceChars}

Sources(len) ==
    SourcesUpTo(len)
    \cup {StringTestSource, StringMultilineTestSource, NumberTestSource}

\* A chain x1 op1 x2 ... opn xn+1; as a statement: the operators are drawn
\* from ChainOps, the operands are variables, number literals, or the two
\* in turn.
ChainOps == {"EqualEqual", "Less", "Minus", "Plus", "Star", "Or", "And", "Equal"}
OperandPatterns == {"id", "num", "id_num", "num_id"}

Operand(pattern, i) ==
    IF pattern = "id" \/ (pattern = "id_num" /\ i % 2 = 1) \/ (pattern = "num_id" /\ i % 2 = 0)
    THEN IdTok(<<"a", "b", "f", "clock">>[((i - 1) % 4) + 1])
    ELSE NumTok(i)

RECURSIVE ChainsUpTo(_, _)
ChainsUpTo(n, pattern) ==
    IF n = 0 THEN {[operands |-> <<Operand(pattern, 1)>>, ops |-> <<>>]}
    ELSE LET shorter == ChainsUpTo(n - 1, pattern)
         IN  shorter
             \cup {[operands |-> Append(ch.operands, Operand(pattern, Len(ch.operands) + 1)),
                    ops |-> Append(ch.ops, op)] : ch \in shorter, op \in ChainOps}

Chains(n) == UNION {ChainsUpTo(n, pattern) : pattern \in OperandPatterns}

RECURSIVE ChainTokens(_, _)
ChainTokens(operands, ops) ==
    IF ops = <<>> THEN <<operands[1]>>
    ELSE <<operands[1], Tok(ops[1])>> \o ChainTokens(Tail(operands), Tail(ops))

StmtSource(ts) == Src(ts \o <<Tok("Semicolon")>>)

\* 3 - 4 * 2;   (a) = 1;   f() = 1;   all with no chain recorded.
OtherStatements ==
    {<<NumTok(3), Tok("Minus"), NumTok(4), Tok("Star"), NumTok(2)>>,
     <<Tok("LeftParen"), IdTok("a"), Tok("RightParen"), Tok("Equal"), NumTok(1)>>,
     <<IdTok("f"), Tok("LeftParen"), Tok("RightParen"), Tok("Equal"), NumTok(1)>>}

\* Declarations, well-formed and malformed, each with what the grammar says
\* of it: its statement, or the message of its error and the offset (from
\* its first token) of the token it fails at.
\*   print a;   var b = 1;   a = 1;
\*   print ;    var = 1;     print a     1 = 2;     return ;
\* The grammar has no return statement: return ; fails at its first token,
\* a keyword.
Declarations ==
    {[tokens |-> PrintOf(<<IdTok("a")>>), good |-> TRUE,
      stmt |-> PrintStmt(Variable("a")), msg |-> "", at |-> 0],
     [tokens |-> VarOf("b", <<NumTok(1)>>), good |-> TRUE,
      stmt |-> VarStmt("b", Literal(Number(1))), msg |-> "", at |-> 0],
     [tokens |-> <<IdTok("a"), Tok("Equal"), NumTok(1), Tok("Semicolon")>>, good |-> TRUE,
      stmt |-> ExpressionStmt(Assign("a", Literal(Number(1)))), msg |-> "", at |-> 0],
     [tokens |-> <<Tok("Print"), Tok("Semicolon")>>, good |-> FALSE,
      stmt |-> Nil, msg |-> "is not a primary", at |-> 1],
     [tokens |-> <<Tok("Var"), Tok("Equal"), NumTok(1), Tok("Semicolon")>>, good |-> FALSE,
      stmt |-> Nil, msg |-> "Expect variable name.", at |-> 1],
     [tokens |-> <<Tok("Print"), IdTok("a")>>, good |-> FALSE,
      stmt |-> Nil, msg |-> "Expected ';' after value", at |-> 2],
     [tokens |-> <<NumTok(1), Tok("Equal"), NumTok(2), Tok("Semicolon")>>, good |-> FALSE,
      stmt |-> Nil, msg |-> "Invalid assignment target", at |-> 3],
     [tokens |-> <<Tok("Return"), Tok("Semicolon")>>, good |-> FALSE,
      stmt |-> Nil, msg |-> "is not a primary", at |-> 0]}

RECURSIVE ProgramsUpTo(_)
ProgramsUpTo(n) ==
    IF n = 0 THEN {<<>>}
    ELSE LET shorter == ProgramsUpTo(n - 1)
         IN  shorter \cup {Append(ds, d) : ds \in shorter, d \in Declarations}

RECURSIVE ProgramTokens(_)
ProgramTokens(ds) == IF ds = <<>> THEN <<>> ELSE Head(ds).tokens \o ProgramTokens(Tail(ds))

FrontInputs(len, n, m) ==
    {[kind |-> "decls", tokens |-> Src(ProgramTokens(ds)), decls |-> ds] :
       ds \in ProgramsUpTo(m)} \cup
    {[kind |-> "source", source |-> src] : src \in Sources(len)}
    \cup {[kind |-> "tokens", tokens |-> StmtSource(ChainTokens(ch.operands, ch.ops)),
           operands |-> ch.operands, ops |-> ch.ops] : ch \in Chains(n)}
    \cup {[kind |-> "tokens", tokens |-> StmtSource(ts), operands |-> <<>>, ops |-> <<>>] :
            ts \in OtherStatements}

InitFront ==
    /\ input \in FrontInputs(MaxSrcLen, MaxOps, MaxDecls)
    /\ phase = CASE input.kind = "source" -> "scanning"
                 [] input.kind = "decls" -> "parsing"
                 [] OTHER -> "ready"
    /\ scanner = IF input.kind = "source" THEN NewScanner(input.source) ELSE NoScanner
    /\ scan_errors = <<>>
    /\ parser = NewParser
    /\ result = NoResult
    /\ world = World0
    /\ interp = NewInterpreter(1)
    /\ overflow_checks = FALSE
    /\ slots = [resolve |-> "stack.1", get_distance |-> "stack.2"]
    /\ runs = 0

\* One iteration of the loop of scan_tokens (scanner.rs:63-71). A panic of
\* scan_token ends the process.
ScanToken ==
    /\ phase = "scanning"
    /\ ~scanner_is_at_end(scanner)
    /\ LET after_scan_token(r) ==
               /\ scanner' = r.sc
               /\ scan_errors' = IF r.tag = "err" THEN Append(scan_errors, r.msg)
                                 ELSE scan_errors
               /\ phase' = IF r.tag = "panic" THEN "aborted" ELSE "scanning"
       IN  after_scan_token(scan_token([scanner EXCEPT !.start = scanner.current]))
    /\ UNCHANGED <<input, result, world, interp, overflow_checks, slots, runs, parser>>

\* scan_tokens after its loop (scanner.rs:72-89): the Eof token, then the
\* errors joined, one per line, or the tokens.
ScanFinish ==
    /\ phase = "scanning"
    /\ scanner_is_at_end(scanner)
    /\ scanner' = [scanner EXCEPT !.tokens = Append(@, [token_type |-> "Eof",
                                                        lexeme |-> <<>>,
                                                        literal |-> None,
                                                        line_number |-> scanner.line])]
    /\ result' = IF scan_errors # <<>>
                 THEN [stage |-> "scan", tag |-> "err", val |-> scan_errors]
                 ELSE [stage |-> "scan", tag |-> "ok", val |-> scanner'.tokens]
    /\ phase' = "done"
    /\ UNCHANGED <<input, scan_errors, world, interp, overflow_checks, slots, runs, parser>>

\* parser.parse() on the input tokens.
DoParse ==
    /\ phase = "ready"
    /\ input.kind = "tokens"
    /\ LET after_parse(p) ==
               result' = [stage |-> "parse", tag |-> p.tag,
                          val |-> [stmts |-> p.stmts, errors |-> p.errors]]
       IN  after_parse(parse(input.tokens))
    /\ phase' = "done"
    /\ UNCHANGED <<input, world, interp, overflow_checks, slots, runs, scanner, scan_errors, parser>>

\* One iteration of the loop of Parser::parse (parser.rs:31-43).
ParseDeclaration ==
    /\ phase = "parsing"
    /\ ~is_at_end(input.tokens, parser.current)
    /\ LET after_stmt(stmt) ==
               parser' = IF stmt.tag = "ok"
                         THEN [parser EXCEPT !.current = stmt.cur,
                                             !.stmts = Append(@, stmt.node)]
                         ELSE [parser EXCEPT
                                 !.current = synchronize(input.tokens, stmt.cur),
                                 !.errors = Append(@, [msg |-> stmt.msg,
                                                       token |-> peek(input.tokens,
                                                                      stmt.cur).token_type])]
       IN  after_stmt(declaration(input.tokens, parser.current))
    /\ UNCHANGED <<phase, input, result, world, interp, overflow_checks, slots, runs, scanner,
                   scan_errors>>

\* Parser::parse after its loop (parser.rs:45-54).
ParseFinish ==
    /\ phase = "parsing"
    /\ is_at_end(input.tokens, parser.current)
    /\ LET after_loop(p) ==
               result' = [stage |-> "parse", tag |-> p.tag,
                          val |-> [stmts |-> p.stmts, errors |-> p.errors]]
       IN  after_loop(parse_result([stmts |-> parser.stmts, errors |-> parser.errors]))
    /\ phase' = "done"
    /\ UNCHANGED <<input, world, interp, overflow_checks, slots, runs, scanner, scan_errors, parser>>

NextFront == ScanToken \/ ScanFinish \/ DoParse \/ ParseDeclaration \/ ParseFinish

FrontSpec == InitFront /\ [][NextFront]_vars

\* Parser::parse alone, one declaration per step.
InitParse ==
    /\ input \in {[kind |-> "decls", tokens |-> Src(ProgramTokens(ds)), decls |-> ds] :
                     ds \in ProgramsUpTo(MaxDecls)}
    /\ phase = "parsing"
    /\ scanner = NoScanner
    /\ scan_errors = <<>>
    /\ parser = NewParser
    /\ result = NoResult
    /\ world = World0
    /\ interp = NewInterpreter(1)
    /\ overflow_checks = FALSE
    /\ slots = [resolve |-> "stack.1", get_distance |-> "stack.2"]
    /\ runs = 0

NextParse == ParseDeclaration \/ ParseFinish

\* The guard of ParseDeclaration: the loop of parse has an iteration to run.
DeclarationPending == phase = "parsing" /\ ~is_at_end(input.tokens, parser.current)

\* parse is sequential code: an iteration of its loop that can run does
\* run, and so does the code after the loop. Weak fairness of both steps;
\* the one of ParseDeclaration is written out, with the guard of the
\* action, which every step of it changes the state from, as its enabling
\* condition.
ParseSpec ==
    /\ InitParse
    /\ [][NextParse]_vars
    /\ WF_vars(ParseFinish)
    /\ ([]<>~DeclarationPending \/ []<><<ParseDeclaration>>_vars)

(***************************************************************************)
(* Properties of the scanner, checked under FrontSpec.                     *)
(***************************************************************************)
ScanDone == input.kind = "source" /\ phase = "done"
ScanAborted == input.kind = "source" /\ phase = "aborted"

\* The sources made of the given characters only.
SourceOver(chars) ==
    /\ input.kind = "source"
    /\ \A i \in 1..Len(input.source) : input.source[i] \in chars

\* The tokens scanned so far, each as its type and lexeme.
Lexemes(tokens) == [i \in 1..Len(tokens) |-> <<tokens[i].token_type, tokens[i].lexeme>>]

RECURSIVE DigitsFrom(_, _)
DigitsFrom(src, i) ==
    IF i <= Len(src) /\ is_digit(src[i]) THEN 1 + DigitsFrom(src, i + 1) ELSE 0

\* The tokens of a source of digits, dots and line ends as the rule for
\* '.' gives them: a '.' belongs to a number exactly when digits come
\* before it and a digit right after it.
RECURSIVE NumbersAndDots(_, _)
NumbersAndDots(src, i) ==
    IF i > Len(src) THEN <<>>
    ELSE IF src[i] = "." THEN <<<<"Dot", <<".">>>>>> \o NumbersAndDots(src, i + 1)
    ELSE IF src[i] = "\n" THEN NumbersAndDots(src, i + 1)
    ELSE LET whole == DigitsFrom(src, i)
             dot == i + whole
             fraction == IF dot <= Len(src) /\ src[dot] = "." /\ DigitsFrom(src, dot + 1) > 0
                         THEN 1 + DigitsFrom(src, dot + 1) ELSE 0
         IN  <<<<"Number", SubSeq(src, i, dot + fraction - 1)>>>>
             \o NumbersAndDots(src, dot + fraction)

\* The scans that come to their end give the tokens of the rule.
DotRuleWhenScanned ==
    (SourceOver({"1", ".", "\n"}) /\ ScanDone)
    => /\ result.tag = "ok"
       /\ Lexemes(result.val) = NumbersAndDots(input.source, 1) \o <<<<"Eof", <<>>>>>>

\* C15: the scanner takes a '.' into a number only when it follows at least
\* one digit and is immediately followed by a digit; in every other
\* position, the end of the source included, '.' is a separate Dot token:
\* every source of digits, dots and line ends is scanned to its end, into
\* the tokens this rule gives.
C15_DotInNumber ==
    /\ DotRuleWhenScanned
    /\ SourceOver({"1", ".", "\n"}) => phase # "aborted"

\* The message of each unrecognised character of a source without strings
\* and comments, in source order.
RECURSIVE Unrecognised(_, _, _)
Unrecognised(src, i, line) ==
    IF i > Len(src) THEN <<>>
    ELSE IF src[i] = "@"
    THEN <<<<"Unrecognised char", "@", "at line", line>>>> \o Unrecognised(src, i + 1, line)
    ELSE Unrecognised(src, i + 1, IF src[i] = "\n" THEN line + 1 ELSE line)

\* The scans that come to their end return every error, or the tokens.
ErrorsCollectedWhenScanned ==
    ScanDone
    => /\ result.tag = "ok" <=> scan_errors = <<>>
       /\ result.tag = "ok" => result.val = scanner.tokens
       /\ result.tag = "err" => result.val = scan_errors
       /\ SourceOver({"1", ".", "a", "@", "\n"})
          => scan_errors = Unrecognised(input.source, 1, 1)

\* C16: a lexical error does not stop the scan: the scanner goes on to the
\* end of the source and records every lexical error; scan_tokens returns
\* the tokens iff no error was recorded, and otherwise all the messages in
\* source order.
C16_ScanGoesOnAfterError ==
    /\ ErrorsCollectedWhenScanned
    /\ (input.kind = "source" /\ scan_errors # <<>>) => phase # "aborted"

\* The index of the first quote of src at or after i, 0 when there is none.
RECURSIVE QuoteFrom(_, _)
QuoteFrom(src, i) ==
    IF i > Len(src) THEN 0 ELSE IF src[i] = "\"" THEN i ELSE QuoteFrom(src, i + 1)

LinesIn(src) == Cardinality({i \in 1..Len(src) : src[i] = "\n"})

\* A source that opens with a string literal that has its closing quote,
\* after the scanner's first token.
ClosedStringScanned ==
    /\ input.kind = "source"
    /\ input.source # <<>>
    /\ input.source[1] = "\""
    /\ QuoteFrom(input.source, 2) # 0
    /\ scanner.current > 0

\* C17: a string literal that has a closing quote is scanned into one String
\* token whose payload is the raw characters between the quotes, line ends
\* included, whatever follows the closing quote, the end of the source
\* included; an unterminated-string error is reported only for a literal
\* without closing quote.
C17_ClosedStringIsOneToken ==
    ClosedStringScanned
    => LET close == QuoteFrom(input.source, 2)
           payload == SubSeq(input.source, 2, close - 1)
       IN  /\ scanner.tokens # <<>>
           /\ scanner.tokens[1] = [token_type |-> "String_",
                                   lexeme |-> SubSeq(input.source, 1, close),
                                   literal |-> Some(StringValue(payload)),
                                   line_number |-> 1 + LinesIn(payload)]
           /\ QuoteFrom(input.source, close + 1) = 0
              => \A i \in 1..Len(scan_errors) : scan_errors[i] # <<"String is not terminated">>

\* The same, for the literals whose closing quote is not the last character.
ClosedStringBeforeEndIsOneToken ==
    (ClosedStringScanned /\ QuoteFrom(input.source, 2) < Len(input.source))
    => LET close == QuoteFrom(input.source, 2)
           payload == SubSeq(input.source, 2, close - 1)
       IN  /\ scanner.tokens # <<>>
           /\ scanner.tokens[1] = [token_type |-> "String_",
                                   lexeme |-> SubSeq(input.source, 1, close),
                                   literal |-> Some(StringValue(payload)),
                                   line_number |-> 1 + LinesIn(payload)]

(***************************************************************************)
(* Properties of the expression grammar, checked under FrontSpec.          *)
(***************************************************************************)
Parsed == input.kind = "tokens" /\ phase = "done"

\* The input is a chain of at least one operator, all of them in ops.
ChainOf(ops) ==
    /\ input.kind = "tokens"
    /\ input.ops # <<>>
    /\ \A i \in 1..Len(input.ops) : input.ops[i] \in ops

BinaryOperators == {"EqualEqual", "Less", "Minus", "Plus", "Star"}

\* The levels, the loosest first: or, and, equality, comparison, term, factor.
OperatorLevel(op) ==
    CASE op = "Or" -> 1
      [] op = "And" -> 2
      [] op = "EqualEqual" -> 3
      [] op = "Less" -> 4
      [] op \in {"Minus", "Plus"} -> 5
      [] op = "Star" -> 6

Leaf(token) ==
    IF token.token_type = "Identifier" THEN Variable(token.lexeme)
    ELSE Literal(token.literal.v)

\* The tree of a chain: split at the last operator of the loosest level in
\* it, so that tighter levels lie deeper and a level leans to the left.
RECURSIVE TreeOf(_, _)
TreeOf(operands, ops) ==
    IF ops = <<>> THEN Leaf(operands[1])
    ELSE LET loosest == CHOOSE l \in 1..6 :
                          /\ \E i \in 1..Len(ops) : OperatorLevel(ops[i]) = l
                          /\ \A i \in 1..Len(ops) : OperatorLevel(ops[i]) >= l
             k == CHOOSE i \in 1..Len(ops) :
                    /\ OperatorLevel(ops[i]) = loosest
                    /\ \A j \in (i + 1)..Len(ops) : OperatorLevel(ops[j]) # loosest
             left == TreeOf(SubSeq(operands, 1, k), SubSeq(ops, 1, k - 1))
             right == TreeOf(SubSeq(operands, k + 1, Len(operands)), SubSeq(ops, k + 1, Len(ops)))
         IN  IF ops[k] \in {"Or", "And"} THEN Logical(left, ops[k], right)
             ELSE Binary(left, ops[k], right)

ThreeMinusFourTimesTwo ==
    StmtSource(<<NumTok(3), Tok("Minus"), NumTok(4), Tok("Star"), NumTok(2)>>)

\* C18: among equality, comparison, term and factor a higher level binds
\* tighter and operators of one level chain to the left, for every chain:
\* the statement of a chain of these operators parses to the tree that
\* splits at the last operator of the loosest level; 3 - 4 * 2 parses as
\* (- 3 (* 4 2)) and evaluates to -5.
C18_BinaryPrecedence ==
    /\ (Parsed /\ ChainOf(BinaryOperators))
       => /\ result.tag = "ok"
          /\ result.val.stmts = <<ExpressionStmt(TreeOf(input.operands, input.ops))>>
    /\ (Parsed /\ input.tokens = ThreeMinusFourTimesTwo)
       => /\ result.tag = "ok"
          /\ result.val.stmts =
               <<ExpressionStmt(Binary(Literal(Number(3)), "Minus",
                                       Binary(Literal(Number(4)), "Star", Literal(Number(2)))))>>
          /\ Evaluvate(result.val.stmts[1].expression, 1, None, World0, Fuel).val = Number(-5)

\* a - b * f - clock has been parsed.
C18_Witness ==
    /\ Parsed
    /\ input.ops = <<"Minus", "Star", "Minus">>
    /\ \A i \in 1..4 : input.operands[i].token_type = "Identifier"
    /\ result.tag = "ok"

\* C19: the or and the and level take a chain of any number of their
\* operator and build a left-leaning Logical tree, and binding tighter than
\* or: every chain over or, and and the binary operators parses, to the
\* tree that splits at the last operator of the loosest level.
C19_LogicalChains ==
    (Parsed /\ ChainOf(BinaryOperators \cup {"Or", "And"}))
    => /\ result.tag = "ok"
       /\ result.val.stmts = <<ExpressionStmt(TreeOf(input.operands, input.ops))>>

\* The same for the chains with at most one or and at most one and.
LogicalOnceParses ==
    (/\ Parsed
     /\ ChainOf(BinaryOperators \cup {"Or", "And"})
     /\ \A op \in {"Or", "And"} : Cardinality({i \in 1..Len(input.ops) : input.ops[i] = op}) <= 1)
    => /\ result.tag = "ok"
       /\ result.val.stmts = <<ExpressionStmt(TreeOf(input.operands, input.ops))>>

\* The index of the first = of a chain, 0 when it has none.
RECURSIVE FirstEqual(_, _)
FirstEqual(ops, i) ==
    IF i > Len(ops) THEN 0 ELSE IF ops[i] = "Equal" THEN i ELSE FirstEqual(ops, i + 1)

\* The tree of a chain with assignments: the first = splits it, its left
\* side has to be one variable, its right side is such a chain again.
RECURSIVE AssignTreeOf(_, _)
AssignTreeOf(operands, ops) ==
    IF FirstEqual(ops, 1) = 0 THEN [valid |-> TRUE, node |-> TreeOf(operands, ops)]
    ELSE IF FirstEqual(ops, 1) = 1 /\ operands[1].token_type = "Identifier"
    THEN LET value == AssignTreeOf(Tail(operands), Tail(ops))
         IN  IF value.valid
             THEN [valid |-> TRUE, node |-> Assign(operands[1].lexeme, value.node)]
             ELSE value
    ELSE [valid |-> FALSE, node |-> Nil]

InvalidTarget ==
    /\ result.tag = "err"
    /\ result.val.stmts = <<>>
    /\ Len(result.val.errors) = 1
    /\ result.val.errors[1].msg = "Invalid assignment target"

\* C20: assignment is right-associative and accepted only when its left
\* side is a bare variable: a = b = f parses as Assign(a, Assign(b, f)),
\* and a literal, a grouping such as (a) = 1, a call or a binary expression
\* on the left makes the declaration a parse error and no Assign node.
C20_AssignmentTargets ==
    /\ (Parsed /\ ChainOf(BinaryOperators \cup {"Equal"}))
       => LET expected == AssignTreeOf(input.operands, input.ops)
          IN  IF expected.valid
              THEN /\ result.tag = "ok"
                   /\ result.val.stmts = <<ExpressionStmt(expected.node)>>
              ELSE InvalidTarget
    /\ (Parsed /\ input.ops = <<>> /\ \E i \in 1..Len(input.tokens) :
                                        input.tokens[i].token_type = "Equal")
       => InvalidTarget

\* a = b = f has been parsed.
C20_Witness ==
    /\ Parsed
    /\ input.ops = <<"Equal", "Equal">>
    /\ \A i \in 1..3 : input.operands[i].token_type = "Identifier"
    /\ result.tag = "ok"
    /\ result.val.stmts = <<ExpressionStmt(Assign("a", Assign("b", Variable("f"))))>>

(***************************************************************************)
(* Properties of Parser::parse, checked under FrontSpec on the programs of *)
(* Declarations.                                                           *)
(***************************************************************************)
DeclsParsed == input.kind = "decls" /\ phase = "done"

RECURSIVE DeclStart(_, _)
\* The index (from 0) of the first token of declaration i of ds.
DeclStart(ds, i) == IF i = 1 THEN 0 ELSE DeclStart(ds, i - 1) + Len(ds[i - 1].tokens)

StartsWithKeyword(d) ==
    Head(d.tokens).token_type \in {"Class", "Func", "Var", "For", "If", "While", "Print", "Return"}

\* What recovery gives for the declarations of ds from the i-th on: a
\* well-formed one gives its statement; a malformed one gives its error,
\* the tokens from the one it failed at (skip_failed: from the one after
\* it) are skipped up to a keyword or the end marker, and the declaration
\* that starts there is the next one parsed.
RECURSIVE Recovery(_, _, _, _, _)
Recovery(ds, i, stmts, errs, skip_failed) ==
    IF i > Len(ds) THEN [stmts |-> stmts, errors |-> errs]
    ELSE IF ds[i].good THEN Recovery(ds, i + 1, Append(stmts, ds[i].stmt), errs, skip_failed)
    ELSE LET failed_at == DeclStart(ds, i) + ds[i].at
             from == IF skip_failed /\ failed_at < Len(ProgramTokens(ds))
                     THEN failed_at + 1 ELSE failed_at
             later == {j \in (i + 1)..Len(ds) :
                         DeclStart(ds, j) >= from /\ StartsWithKeyword(ds[j])}
             resume == IF later = {} THEN Len(ds) + 1
                       ELSE CHOOSE j \in later : \A k \in later : j <= k
         IN  Recovery(ds, resume, stmts,
                      Append(errs, [msg |-> ds[i].msg,
                                    token |-> Src(ProgramTokens(ds))[failed_at + 1].token_type]),
                      skip_failed)

\* parse returns the statements iff no declaration failed, else the errors.
Recovered(skip_failed) ==
    LET expected == Recovery(input.decls, 1, <<>>, <<>>, skip_failed)
    IN  IF expected.errors = <<>>
        THEN /\ result.tag = "ok"
             /\ result.val.stmts = expected.stmts
        ELSE /\ result.tag = "err"
             /\ result.val.stmts = <<>>
             /\ result.val.errors = expected.errors

\* C21 (as stated): after a failed declaration the parser skips tokens until
\* the next token is a statement keyword or the end marker and resumes
\* there, so a declaration that follows a malformed one is parsed and its
\* own error is reported too; parse returns all statements iff no
\* declaration failed and otherwise every recorded message in order.
C21_ResumesAtNextKeyword == DeclsParsed => Recovered(FALSE)

\* C21 (amended): the token the declaration failed at is skipped first, a
\* keyword included, and then the tokens up to the next statement keyword
\* or the end marker; parsing resumes there, and parse returns all
\* statements iff no declaration failed and otherwise every recorded
\* message in order.
C21_ResumesAfterFailedToken == DeclsParsed => Recovered(TRUE)

\* print a  print ;  has been parsed: the first declaration failed at the
\* keyword of the second.
C21_Witness ==
    /\ DeclsParsed
    /\ Len(input.decls) = 2
    /\ input.decls[1].tokens = <<Tok("Print"), IdTok("a")>>
    /\ input.decls[2].tokens = <<Tok("Print"), Tok("Semicolon")>>
    /\ result.tag = "err"
    /\ Len(result.val.errors) = 1

(***************************************************************************)
(* Expression-node equality and hashing (expr.rs:234-248)                  *)
(***************************************************************************)
TraitsDone == input.kind = "nodes" /\ phase = "done"
SameNode == input.key.addr = input.probe.addr

\* C22: equality and hashing of expression nodes are by node identity: a
\* node is equal to itself and is found in a map keyed by it, a distinct
\* node, whatever its structure, is unequal to it and is not found.
C22_EqualityByIdentity ==
    TraitsDone => /\ result.val.eq <=> SameNode
                  /\ result.val.found <=> SameNode

\* What holds of the code: no node is equal to any node, itself included,
\* and a map keyed by the node finds nothing ...
ExprEqIsNeverTrue == TraitsDone => ~result.val.eq /\ ~result.val.found
\* ... while a map keyed by an Rc of the node, the map of the test
\* expr_traits, finds exactly the allocation that was inserted.
RcKeyedMapIsByIdentity == TraitsDone => (result.val.found_rc <=> SameNode)

(***************************************************************************)
(* Resolver: the hop counts recorded (resolver.rs:238-268)                 *)
(***************************************************************************)
\* The first submission of a session was one of the scope sources.
ScopeRun == input.kind = "source" /\ runs = 1 /\ input.tokens \in ScopeSources
\* It came back from the resolver without an error or a panic.
Resolved == ~(result.stage = "resolve" /\ result.tag \in {"err", "panic"})
\* The hop counts in the table the resolver filled.
Hops == {interp.locals[k] : k \in DOMAIN interp.locals}
\* The hop count of the one read or assignment of each source: the scopes
\* between the node and the scope that declares the name, none for a global.
ExpectedHops(tokens) ==
    CASE tokens = LocalReadSource -> {0}
      [] tokens \in {OuterReadSource, OuterAssignSource} -> {1}
      [] OTHER -> {}

\* C23: for a read or an assignment inside a scope the resolver records the
\* hop count to the first scope, innermost outward, that holds the name; a
\* name in no scope gets no entry; reading a name of an outer scope or a
\* global from inside a scope is no error.
C23_HopCountsRecorded ==
    ScopeRun => Resolved /\ Hops = ExpectedHops(input.tokens)

\* What holds of the code: the resolver never records a hop count ...
ResolverRecordsNothing == Hops = {}
\* ... an assignment inside a scope always resolves, and a read resolves
\* only of a name the innermost scope declares.
OnlyInnermostReadsResolve ==
    ScopeRun =>
        (Resolved <=> input.tokens \in {LocalReadSource, GlobalAssignSource, OuterAssignSource})

(***************************************************************************)
(* The binding table (interpreter.rs:174-183)                              *)
(***************************************************************************)
Looked == input.kind = "nodes" /\ result.stage = "get_distance"

\* C24: the table is keyed by a stable identity of the node: a lookup finds
\* exactly the entry recorded for that node, the hop count recorded for the
\* key node, and for another node the hop count recorded for that one.
C24_LookupFindsRecordedEntry ==
    Looked => /\ result.val.of_key = Some(result.val.size)
              /\ ~SameNode => result.val.of_probe = Some(result.val.other)

\* What holds of the code: a lookup gives one answer whichever node is
\* looked up, nothing or the hop count recorded last ...
LookupIgnoresNode ==
    Looked => /\ result.val.of_key = result.val.of_probe
              /\ result.val.of_key \in
                     {None, Some(IF SameNode THEN result.val.size ELSE result.val.other)}
\* ... and no run of a program has an entry to find.
TableEmptyInEveryRun == input.kind \in {"expr", "stmts", "source"} => interp.locals = <<>>

(***************************************************************************)
(* Environment frames: the enclosing links (interpreter.rs:29-49, 144-155) *)
(***************************************************************************)
FrameIds == 1..Len(world.frames)
\* The links from frame f up to the frame that has no enclosing one.
RECURSIVE ChainLength(_)
ChainLength(f) ==
    IF world.frames[f].enclosing = 0 THEN 0 ELSE 1 + ChainLength(world.frames[f].enclosing)

\* Every frame's enclosing link is absent or a frame created before it.
LinksGoBack == \A f \in FrameIds : world.frames[f].enclosing \in 0..(f - 1)
\* A step leaves the enclosing link of every frame that exists as it is.
LinksKept ==
    \A f \in FrameIds :
        /\ f \in 1..Len(world'.frames)
        /\ world'.frames[f].enclosing = world.frames[f].enclosing

\* C25: the enclosing chain of every frame is finite and acyclic: a link is
\* set once, when the frame is created, to a frame that exists already,
\* never to the frame itself or to a frame created after it.
C25_EnclosingChainsAcyclic == [][LinksGoBack /\ LinksGoBack' /\ LinksKept]_vars

\* A run has created a block frame inside the frame of a call and a call
\* frame on top of the captured block frame: a chain of three links or more.
C25_Witness ==
    /\ input.kind = "stmts"
    /\ phase = "done"
    /\ world.calls # <<>>
    /\ \E f \in FrameIds : LinksGoBack /\ ChainLength(f) >= 3

(***************************************************************************)
(* Environment::assign and Environment::get at a present distance          *)
(* (environments.rs:59-96)                                                 *)
(***************************************************************************)
\* The input was  name  or  name = 1  evaluated at a present distance.
AtDistance ==
    /\ input.kind = "expr"
    /\ result.stage = "evaluvate"
    /\ input.d # None
    /\ input.x.e = "Variable" \/ (input.x.e = "Assign" /\ input.x.value = One)
TargetFrame == FrameAbove(input.env, input.d.v)

\* C26: with a present distance d, assign and get act on the frame d
\* enclosing links above the current one: assign changes the binding of
\* the name there and nothing else, get yields the binding there or an
\* undefined-variable error; with fewer than d links both abort.
C26_DistanceSelectsFrame ==
    AtDistance =>
        IF TargetFrame = 0
        THEN result.tag = "panic" /\ phase = "aborted" /\ world = EvalWorld
        ELSE IF input.x.e = "Assign"
        THEN /\ result.tag = "ok"
             /\ world = [EvalWorld EXCEPT !.frames[TargetFrame].values[input.x.name] = Number(1)]
        ELSE /\ world = EvalWorld
             /\ IF EvalWorld.frames[TargetFrame].values[input.x.name] = Absent
                THEN result.tag = "err" /\ result.val.msg = "is not defined"
                ELSE /\ result.tag = "ok"
                     /\ result.val = EvalWorld.frames[TargetFrame].values[input.x.name]

\* a = 1 at distance 1 from the block frame has written the top frame, in
\* which a was not bound, and left the block frame's a as it was.
C26_Witness ==
    /\ AtDistance
    /\ input.x.e = "Assign" /\ input.x.name = "a"
    /\ input.env = 2 /\ input.d = Some(1)
    /\ world.frames[1].values["a"] = Number(1)
    /\ world.frames[2].values["a"] = Nil

(***************************************************************************)
(* Environment::define (environments.rs:45-56)                             *)
(***************************************************************************)
Defined == input.kind = "define" /\ phase = "done"
\* Every frame but the one define was called on is as it was.
OtherFramesKept ==
    /\ Len(world.frames) = Len(EvalWorld.frames)
    /\ \A f \in FrameIds \ {input.env} : world.frames[f] = EvalWorld.frames[f]

\* C27: whatever its arguments, define binds the name in the name-to-value
\* map of the frame it is called on: a get of the name at distance 0 on
\* that frame then returns the value, and no other frame is modified.
C27_DefineBindsInCurrentFrame ==
    Defined => result.val = input.value /\ OtherFramesKept

\* What holds of the code: with a present distance, 0 or more, the name is
\* bound in the frame's values; with an absent distance it is bound in the
\* frame's globals and its values are as they were.
DefineBindsInValuesOrGlobals ==
    Defined =>
        /\ OtherFramesKept
        /\ world.frames[input.env] =
              IF input.d = None
              THEN [EvalWorld.frames[input.env] EXCEPT !.globals[input.name] = input.value]
              ELSE [EvalWorld.frames[input.env] EXCEPT !.values[input.name] = input.value]

(***************************************************************************)
(* Stmt::Block (interpreter.rs:144-155)                                    *)
(***************************************************************************)
\* The program has a block among its top-level statements. In every such
\* program drawn the statements before the block succeed and create no
\* frame: the block is entered and its frame is the first one created.
HasBlock == \E i \in 1..Len(input.stmts) : input.stmts[i].s = "Block"
BlockFrame == Len(EvalWorld.frames) + 1
BlockRun == input.kind = "stmts" /\ phase = "done" /\ HasBlock

\* C28: a Block creates a frame whose enclosing link is the frame current
\* at entry and runs its statements against it; after the Block, finished
\* normally or with the error of an inner statement, the interpreter's
\* current frame is the one that was current before the Block.
C28_BlockRestoresFrame ==
    BlockRun =>
        /\ interp.env = input.env
        /\ Len(world.frames) >= BlockFrame
        /\ world.frames[BlockFrame].enclosing = input.env
        /\ \A v \in ClosureVals :
              Block(<<AssignF(v)>>) \in {input.stmts[i] : i \in 1..Len(input.stmts)} =>
                  /\ world.frames[BlockFrame].globals["f"] = v
                  /\ world.frames[input.env].globals["f"] = EvalWorld.frames[input.env].globals["f"]

\* print 1; { f; } print 0;  the read of f failed inside the block, the run
\* returned the error and the current frame is the one before the block.
C28_Witness ==
    /\ BlockRun
    /\ input.stmts = <<PrintOne, Block(<<ExpressionStmt(Variable("f"))>>), PrintZero>>
    /\ result.tag = "err"
    /\ Len(world.frames) = BlockFrame
    /\ interp.env = input.env

(***************************************************************************)
(* Scanner: the indices into the source (scanner.rs:93-95, 199-225,        *)
(* 262-276)                                                                *)
(***************************************************************************)
CursorInBounds ==
    /\ scanner.start <= scanner.current
    /\ scanner.current <= Len(scanner.source)

\* C29: for every source the scanner reads no character outside the
\* source: start <= current <= len in every state, and no lookahead
\* indexes the source at or past its end, so that no scan ends in the
\* panic of an index out of bounds.
C29_ScannerStaysInBounds ==
    input.kind = "source" => CursorInBounds /\ phase # "aborted"

\* What holds of the code: start <= current <= len in every state, and the
\* one index out of bounds is the one of peek_next, looking past a '.'
\* that is the last character of the source and follows a digit.
OnlyPeekNextLeavesSource ==
    /\ CursorInBounds
    /\ ScanAborted =>
          /\ Len(input.source) >= 2
          /\ scanner.current = Len(input.source) - 1
          /\ input.source[Len(input.source)] = "."
          /\ is_digit(input.source[Len(input.source) - 1])

(***************************************************************************)
(* Parser::parse: progress and termination (parser.rs:26-55, 568-589)      *)
(***************************************************************************)
\* The index (from 0) of the end marker, the last token.
EndMarker == Len(input.tokens) - 1
\* An iteration of the loop moves the cursor forward by a token at least.
CursorMoves == phase = "parsing" /\ phase' = "parsing" => parser'.current > parser.current
CursorBeforeEnd == input.kind = "decls" => parser.current \in 0..EndMarker

\* C30: parse terminates on every token list that ends with the end
\* marker: every iteration of its loop, the declaration parsed or failed
\* and synchronized, moves the cursor forward, and the cursor never passes
\* the end marker.
C30_ParseTerminates ==
    /\ [][CursorMoves]_vars
    /\ []CursorBeforeEnd
    /\ <>(phase = "done")

\* return ; print a;  has been parsed to its end: the first declaration
\* failed at its first token, a keyword, the parser went past it and on to
\* the second.
C30_Witness ==
    /\ DeclsParsed
    /\ Len(input.decls) = 2
    /\ input.decls[1].tokens = <<Tok("Return"), Tok("Semicolon")>>
    /\ input.decls[2].good
    /\ parser.current = EndMarker
    /\ Len(parser.errors) = 1
    /\ Len(parser.stmts) = 1
====
